---- MODULE Spec2Model ----
(***************************************************************************)
(* Model of the two streaming processors of the SDR telemetry pipeline:    *)
(*   - scripts/processors/ble_processor.py   (BleProcessor, run loop,      *)
(*     deduplication table, compaction)                                    *)
(*   - scripts/processors/sweep_processor.py (SweepProcessor, BinStats,    *)
(*     learning/tracking state machine, anomaly hysteresis)                *)
(* The two processors are independent processes; each has its own          *)
(* specification (SpecRun, SpecSweep) over its own variables.              *)
(***************************************************************************)
EXTENDS Integers, Sequences, FiniteSets, TLC

(***************************************************************************)
(* ---------------------------  BLE processor  --------------------------- *)
(***************************************************************************)

\* BLE_DEDUP_SECONDS, read from the environment at module load (an int).
\* The model runs the configuration BLE_DEDUP_SECONDS=2.
DEDUP_SECONDS == 2

\* the literal 30 of "if self.hop_count % 30 == 0"
CLEANUP_HOPS == 30

\* BLE_CHANNELS, in dictionary (insertion) order
BLE_CHANNELS == <<37, 38, 39>>

\* ---- bounds of the BLE model ----
\* the wall clock (time.time(), whole seconds) runs from 0 to MaxTime
MaxTime == 5
\* successful captures are cut off once hop_count reaches MaxHops
MaxHops == 31
\* at most MaxScan access-address positions are scanned in one dwell
MaxScan == 2
\* the count of suppressed candidates kept in the history saturates here
MaxSkipped == 2

\* the advertisers (macHash values) and PDU types the candidates carry
MacHashes == {"m1", "m2"}
AdvTypes == {"ADV_IND"}
Candidates == [macHash : MacHashes, advType : AdvTypes]

VARIABLES
    last_seen,      \* BleProcessor.last_seen: the dict signature -> time
    hop_count,      \* BleProcessor.hop_count
    clock,          \* the wall clock read by time.time()
    chan,           \* position of run()'s for-loop in BLE_CHANNELS (1..3)
    pc,             \* position of run(): "capture", "scan", "periodic"
    scan_i,         \* index i of the scan loop of _find_and_decode_packets
    out,            \* records written to stdout by output() in the current dwell
    decoded,        \* history: <<the candidate the last scan step decoded>>
    adv_log,        \* history (SpecDedup): signature -> its ble-adv records, in order
    pending,        \* history (SpecDedup): signature -> candidates suppressed since
                    \*   its last record (saturating at MaxSkipped)
    cleanup_hops,   \* history: hop_count values at which cleanup_dedup has run
    noise_stats,    \* BleProcessor.noise_stats: the dict channel -> {n, mean, m2}
    attempts,       \* history (SpecHop): number of capture_channel() calls
    tried,          \* history (SpecHop): <<the channel of the last call>>
    iq              \* history (SpecHop): what the last call returned, <<>> for
                    \*   None and <<number of samples>> for a buffer

bleVars == <<last_seen, hop_count, clock, chan, pc, scan_i, out, decoded,
             adv_log, pending, cleanup_hops, noise_stats, attempts, tried, iq>>

\* the variables of the dwell-level model that the scan-level actions and
\* the deduplicator harness leave alone: they do not model the noise
\* statistics, which DwellOk does
hopVars == <<noise_stats, attempts, tried, iq>>

VARIABLES
    bins,           \* SweepProcessor.bins: the dict center_freq -> BinStats
    streaks,        \* SweepProcessor.streaks: the dict center_freq -> count
    emitted,        \* SweepProcessor.emitted: the dict center_freq -> bool
    start_time,     \* SweepProcessor.start_time: <<>> for None, else <<t>>
    learning,       \* SweepProcessor.learning
    sweep_count,    \* SweepProcessor.sweep_count
    anomaly_count,  \* SweepProcessor.anomaly_count
    anomaly_sigma,  \* ANOMALY_SIGMA, as configured
    sw_clock,       \* the wall clock read by datetime.now(), in seconds
    sw_out,         \* records written to stdout by the last process_line call
    lines,          \* history: number of lines read
    last_line,      \* history: <<the line the last process_line call parsed>>
    run             \* history: center_freq -> consecutive TRACKING readings
                    \*   with sigma over the threshold, up to the latest

sweepVars == <<bins, streaks, emitted, start_time, learning, sweep_count,
               anomaly_count, anomaly_sigma, sw_clock, sw_out, lines,
               last_line, run>>

VARIABLES
    data_bits,      \* the argument data_bits of ble_dewhiten (SpecWhiten)
    wh_channel,     \* the argument channel of ble_dewhiten (SpecWhiten)
    whitened,       \* <<ble_dewhiten(data_bits, wh_channel)>> once computed
    restored,       \* <<ble_dewhiten of that result>> once computed
    bits,           \* the argument bits of the last _find_and_decode_packets
    frame,          \* history: <<the description the last bits were built from>>
    scans,          \* history: number of _find_and_decode_packets calls
    scan_log        \* history: what the last call did at each index whose
                    \*   window passed the access-address correlation

VARIABLES
    ad_data,        \* the advertising data: payload_bytes[6:] of a candidate
    ad_i,           \* index i of the loop of parse_ad_structures
    ad_fields,      \* the dict fields of parse_ad_structures, then ad_fields
    ad_pc,          \* "loop" inside parse_ad_structures, "parsed" once it has
                    \*   returned, "emitted" after the Apple branch
    ad_reads,       \* history: the indexes of ad_data read by the loop
    mfg_from,       \* history: <<index of the structure that set
                    \*   manufacturerId last>>
    continuity      \* history: <<the bytes handed to parse_apple_continuity>>

\* the variables of the advertising-data parser
adVars == <<ad_data, ad_i, ad_fields, ad_pc, ad_reads, mfg_from, continuity>>

\* the variables of the bit-level harnesses
fnVars == <<data_bits, wh_channel, whitened, restored, bits, frame, scans,
            scan_log, adVars>>

vars == <<bleVars, sweepVars, fnVars>>

\* compute_signature("ble-adv", "macHash=..&advType=.."): SHA-256 of the key
\* parts, modelled as the (collision-free) tuple of what is hashed.
compute_signature(protocol, key_parts) == <<"rf-telemetry-v1", protocol, key_parts>>

AdvSig(c) == compute_signature("ble-adv", <<c.macHash, c.advType>>)

Signatures == {AdvSig(c) : c \in Candidates}

\* d[k] = v on a Python dict
DictSet(d, k, v) == [j \in DOMAIN d \cup {k} |-> IF j = k THEN v ELSE d[j]]

\* output() with the new line written before the earlier ones
output_prepend(o, obs) == <<obs>> \o o

\* output(obs): one line appended to stdout
output(o, obs) == Append(o, obs)

\* the dedup check with "<=" in place of "<"
Suppressed_inclusive(seen, sig, now) ==
    sig \in DOMAIN seen /\ (now - seen[sig]) <= DEDUP_SECONDS

\* the dedup check of _find_and_decode_packets: TRUE when the candidate is
\* suppressed ("continue")
Suppressed(seen, sig, now) ==
    sig \in DOMAIN seen /\ (now - seen[sig]) < DEDUP_SECONDS

\* the cutoff of cleanup_dedup() without the window
dedup_cutoff_now(now) == now

\* "cutoff = now - DEDUP_SECONDS * 2"
dedup_cutoff(now) == now - DEDUP_SECONDS * 2

\* cleanup_dedup() with the filter inverted: keeps the stale entries
cleanup_dedup_inverted(seen, now) ==
    LET cutoff == dedup_cutoff(now)
    IN  [k \in {j \in DOMAIN seen : seen[j] <= cutoff} |-> seen[k]]

\* cleanup_dedup(): keep the entries with v > now - 2 * DEDUP_SECONDS
cleanup_dedup(seen, now) ==
    LET cutoff == dedup_cutoff(now)
    IN  [k \in {j \in DOMAIN seen : seen[j] > cutoff} |-> seen[k]]

InitBle ==
    /\ last_seen = [s \in {} |-> 0]
    /\ hop_count = 0
    /\ clock = 0
    /\ chan = 1
    /\ pc = "capture"
    /\ scan_i = 0
    /\ out = <<>>
    /\ decoded = <<>>
    /\ adv_log = [s \in Signatures |-> <<>>]
    /\ pending = [s \in Signatures |-> 0]
    /\ cleanup_hops = {}
    /\ noise_stats = [ch \in {} |-> 0]
    /\ attempts = 0
    /\ tried = <<>>
    /\ iq = <<>>

\* the for-loop of run() leaving out the last channel of BLE_CHANNELS
NextChannel_short ==
    IF chan >= Len(BLE_CHANNELS) - 1
    THEN /\ chan' = 1
         /\ pc' = "periodic"
    ELSE /\ chan' = chan + 1
         /\ pc' = "capture"

\* the for-loop of run() moves to the next channel; after channel 39 the
\* body of "while True" goes on to the periodic cleanup
NextChannel ==
    IF chan = Len(BLE_CHANNELS)
    THEN /\ chan' = 1
         /\ pc' = "periodic"
    ELSE /\ chan' = chan + 1
         /\ pc' = "capture"

\* capture_channel() returned None: log, sleep, continue
CaptureAbsent ==
    /\ pc = "capture"
    /\ NextChannel
    /\ UNCHANGED <<last_seen, hop_count, clock, scan_i, out, decoded,
                   adv_log, pending, cleanup_hops>>
    /\ UNCHANGED hopVars
    /\ UNCHANGED sweepVars
    /\ UNCHANGED fnVars

\* capture_channel() returned a buffer: process_energy() writes the
\* ble-energy record, then process_packets() starts the scan
CaptureOk ==
    /\ pc = "capture"
    /\ hop_count < MaxHops
    /\ out' = output(<<>>, [protocol |-> "ble-energy",
                            channel |-> BLE_CHANNELS[chan],
                            dwell |-> hop_count])
    /\ scan_i' = 0
    /\ decoded' = <<>>
    /\ pc' = "scan"
    /\ UNCHANGED <<last_seen, hop_count, clock, chan,
                   adv_log, pending, cleanup_hops>>
    /\ UNCHANGED hopVars
    /\ UNCHANGED sweepVars
    /\ UNCHANGED fnVars

\* one iteration of "for i in range(n)" that does not reach the dedup check:
\* more than one mismatched bit, or the candidate fails the length checks
ScanSkip ==
    /\ pc = "scan"
    /\ scan_i < MaxScan
    /\ scan_i' = scan_i + 1
    /\ UNCHANGED <<last_seen, hop_count, clock, chan, pc, out, decoded,
                   adv_log, pending, cleanup_hops>>
    /\ UNCHANGED hopVars
    /\ UNCHANGED sweepVars
    /\ UNCHANGED fnVars

\* one iteration of "for i in range(n)" that decodes candidate c and
\* reaches the dedup check
ScanDecode(c) ==
    /\ pc = "scan"
    /\ scan_i < MaxScan
    /\ scan_i' = scan_i + 1
    /\ decoded' = <<[cand |-> c, index |-> scan_i]>>
    /\ LET sig == AdvSig(c)
           now == clock
       IN  IF Suppressed(last_seen, sig, now)
           THEN UNCHANGED <<last_seen, out>>
           ELSE /\ last_seen' = DictSet(last_seen, sig, now)
                /\ out' = output(out, [protocol |-> "ble-adv",
                                       channel |-> BLE_CHANNELS[chan],
                                       dwell |-> hop_count,
                                       index |-> scan_i,
                                       signature |-> sig])
    /\ UNCHANGED <<hop_count, clock, chan, pc, adv_log, pending, cleanup_hops>>
    /\ UNCHANGED hopVars
    /\ UNCHANGED sweepVars
    /\ UNCHANGED fnVars

\* the scan loop is exhausted (range(n) is over, or process_packets returned
\* early): self.hop_count += 1 and the for-loop moves on
EndDwell ==
    /\ pc = "scan"
    /\ hop_count' = hop_count + 1
    /\ NextChannel
    /\ UNCHANGED <<last_seen, clock, scan_i, out, decoded,
                   adv_log, pending, cleanup_hops>>
    /\ UNCHANGED hopVars
    /\ UNCHANGED sweepVars
    /\ UNCHANGED fnVars

\* "if self.hop_count % 30 == 0: self.cleanup_dedup()" after the for-loop
Periodic ==
    /\ pc = "periodic"
    /\ pc' = "capture"
    /\ IF hop_count % CLEANUP_HOPS = 0
       THEN /\ last_seen' = cleanup_dedup(last_seen, clock)
            /\ cleanup_hops' = cleanup_hops \cup {hop_count}
       ELSE UNCHANGED <<last_seen, cleanup_hops>>
    /\ UNCHANGED <<hop_count, clock, chan, scan_i, out, decoded, adv_log, pending>>
    /\ UNCHANGED hopVars
    /\ UNCHANGED sweepVars
    /\ UNCHANGED fnVars

\* the wall clock advances (monotonic)
Tick ==
    /\ clock < MaxTime
    /\ clock' = clock + 1
    /\ UNCHANGED <<last_seen, hop_count, chan, pc, scan_i, out, decoded,
                   adv_log, pending, cleanup_hops>>
    /\ UNCHANGED hopVars
    /\ UNCHANGED sweepVars
    /\ UNCHANGED fnVars

NextRun ==
    \/ CaptureAbsent
    \/ CaptureOk
    \/ ScanSkip
    \/ \E c \in Candidates : ScanDecode(c)
    \/ EndDwell
    \/ Periodic
    \/ Tick

(***************************************************************************)
(* The deduplicator driven by an arbitrary sequence of candidate decodes   *)
(* and compaction runs: the dedup check of _find_and_decode_packets and    *)
(* cleanup_dedup(), called in any order under a monotonic clock.           *)
(***************************************************************************)

\* a candidate decode reaches "now = time.time()" and the dedup check
Decode(c) ==
    /\ decoded' = <<[cand |-> c,
                     index |-> IF decoded = <<>> THEN 0 ELSE 1 - decoded[1].index]>>
    /\ LET sig == AdvSig(c)
           now == clock
       IN  IF Suppressed(last_seen, sig, now)
           THEN /\ pending' = [pending EXCEPT
                                  ![sig] = IF @ < MaxSkipped THEN @ + 1 ELSE @]
                /\ UNCHANGED <<last_seen, adv_log>>
           ELSE /\ last_seen' = DictSet(last_seen, sig, now)
                /\ adv_log' = [adv_log EXCEPT
                       ![sig] = Append(@, [at |-> now, skipped |-> pending[sig]])]
                /\ pending' = [pending EXCEPT ![sig] = 0]
    /\ UNCHANGED <<hop_count, clock, chan, pc, scan_i, out, cleanup_hops>>
    /\ UNCHANGED hopVars
    /\ UNCHANGED sweepVars
    /\ UNCHANGED fnVars

\* a call of cleanup_dedup()
Compact ==
    /\ last_seen' = cleanup_dedup(last_seen, clock)
    /\ UNCHANGED <<hop_count, clock, chan, pc, scan_i, out, decoded,
                   adv_log, pending, cleanup_hops>>
    /\ UNCHANGED hopVars
    /\ UNCHANGED sweepVars
    /\ UNCHANGED fnVars

NextDedup ==
    \/ \E c \in Candidates : Decode(c)
    \/ Compact
    \/ Tick

(***************************************************************************)
(* --------------------------  Sweep processor  -------------------------- *)
(* Python floats are modelled in fixed point: powers, means, standard      *)
(* deviations and sigmas in units of 1/SCALE, variances and m2 in units of *)
(* 1/SCALE^2, every division rounded to the nearest unit.  Frequencies     *)
(* are in kHz.                                                             *)
(***************************************************************************)

SCALE == 1000

\* a / b rounded to the nearest integer (b > 0)
RoundDiv(a, b) == (2 * a + b) \div (2 * b)

RECURSIVE SqrtSearch(_, _, _)
SqrtSearch(x, lo, hi) ==
    IF lo >= hi THEN lo
    ELSE LET mid == (lo + hi + 1) \div 2
         IN  IF mid * mid <= x THEN SqrtSearch(x, mid, hi)
                               ELSE SqrtSearch(x, lo, mid - 1)

\* math.sqrt on a value in units of 1/SCALE^2, result in units of 1/SCALE
Sqrt(x) == SqrtSearch(x, 0, 46340)

\* SWEEP_BASELINE_SECONDS, SWEEP_EMIT_INTERVAL, SWEEP_MIN_STREAK: read from
\* the environment at module load.  The model runs the configuration
\* SWEEP_BASELINE_SECONDS=1, SWEEP_EMIT_INTERVAL=2, SWEEP_MIN_STREAK=2 (the
\* default streak) and lets SWEEP_ANOMALY_SIGMA be 1.0 or 3.0 (the default).
BASELINE_SECONDS == 1
EMIT_INTERVAL == 2
MIN_STREAK == 2
AnomalySigmas == {1, 3}

\* EMA_ALPHA = 0.01 = 1 / EMA_ALPHA_INV
EMA_ALPHA_INV == 100
\* the variance floor 0.1 of finalize_learning, in units of 1/SCALE^2
VAR_FLOOR == 100000
\* the guard "sd < 0.01" of deviation_sigma, in units of 1/SCALE
SD_MIN == 10
\* "if stats.count >= 3" of _finalize_learning and _emit_baseline_summary
MIN_COUNT == 3
\* "if hz_low < 10e6", in kHz
SWEEP_START_KHZ == 10000

\* BinStats.__init__
NewBinStats ==
    [count |-> 0, mean |-> 0, m2 |-> 0,
     ema_mean |-> 0, ema_var |-> 0, learning |-> TRUE]

\* BinStats.update with the learning branch taken whatever the flag says
update_welford_only(stats, value) ==
    LET count == stats.count + 1
        delta == value - stats.mean
        mean == stats.mean + RoundDiv(delta, count)
        delta2 == value - mean
    IN  [stats EXCEPT !.count = count, !.mean = mean,
                      !.m2 = stats.m2 + delta * delta2]

\* BinStats.update
update(stats, value) ==
    IF stats.learning
    THEN LET count == stats.count + 1
             delta == value - stats.mean
             mean == stats.mean + RoundDiv(delta, count)
             delta2 == value - mean
         IN  [stats EXCEPT !.count = count, !.mean = mean,
                           !.m2 = stats.m2 + delta * delta2]
    ELSE LET delta == value - stats.ema_mean
             ema_mean == stats.ema_mean + RoundDiv(delta, EMA_ALPHA_INV)
             \* ema_var + EMA_ALPHA * delta * delta
             grown == stats.ema_var + RoundDiv(delta * delta, EMA_ALPHA_INV)
         IN  [stats EXCEPT !.ema_mean = ema_mean,
                           \* (1 - EMA_ALPHA) * grown
                           !.ema_var = grown - RoundDiv(grown, EMA_ALPHA_INV)]

\* BinStats.variance
variance(stats) ==
    IF stats.count < 2 THEN 0 ELSE RoundDiv(stats.m2, stats.count - 1)

\* BinStats.finalize_learning without the variance floor
finalize_learning_nofloor(stats) ==
    [stats EXCEPT !.learning = FALSE,
                  !.ema_mean = stats.mean,
                  !.ema_var = variance(stats)]

\* BinStats.finalize_learning
finalize_learning(stats) ==
    [stats EXCEPT !.learning = FALSE,
                  !.ema_mean = stats.mean,
                  !.ema_var = IF variance(stats) < VAR_FLOOR
                              THEN VAR_FLOOR ELSE variance(stats)]

\* BinStats.stddev
stddev(stats) ==
    IF stats.learning
    THEN IF variance(stats) > 0 THEN Sqrt(variance(stats)) ELSE 0
    ELSE IF stats.ema_var > 0 THEN Sqrt(stats.ema_var) ELSE 0

\* BinStats.current_mean
current_mean(stats) == IF stats.learning THEN stats.mean ELSE stats.ema_mean

\* BinStats.deviation_sigma returning the magnitude of the deviation
deviation_sigma_abs(stats, value) ==
    LET sd == stddev(stats)
        d == (value - current_mean(stats)) * SCALE
    IN  IF sd < SD_MIN THEN 0
        ELSE RoundDiv(IF d < 0 THEN -d ELSE d, sd)

\* BinStats.deviation_sigma
deviation_sigma(stats, value) ==
    LET sd == stddev(stats)
    IN  IF sd < SD_MIN THEN 0
        ELSE RoundDiv((value - current_mean(stats)) * SCALE, sd)

\* round(x, 1): a value in units of 1/SCALE rounded to tenths
Round1(x) == RoundDiv(x, SCALE \div 10)

\* ---- inputs and bounds of the sweep model ----
\* at most MaxLines input lines are read
MaxLines == 7
\* the wall clock (whole seconds) runs from 0 to MaxSweepTime
MaxSweepTime == 2
\* the dB values of the readings (the lines above the lowest one carry
\* UpperDbValues only), the low edges (kHz) and the bin width (kHz) of the
\* parsed lines
DbValues == {5, 10, 20}
UpperDbValues == {10, 20}
HzLows == {9000, 10000}
HZ_BIN_WIDTH == 1000
SweepTopKHz == 11000

\* center_freq = int(hz_low + hz_bin_width * i + hz_bin_width / 2)
center_freq(hz_low, i) == hz_low + HZ_BIN_WIDTH * i + HZ_BIN_WIDTH \div 2

\* the parsed lines: hz_low and db_values (indexed from 1: db_values[i + 1]
\* is the value enumerate() pairs with i)
Lines ==
    {l \in [hz_low : HzLows,
            db_values : UNION {[1..n -> DbValues] : n \in 1..1}] :
        /\ l.hz_low + HZ_BIN_WIDTH * Len(l.db_values) <= SweepTopKHz
        /\ l.hz_low > 9000 => \A i \in 1..Len(l.db_values) :
                               l.db_values[i] \in UpperDbValues}

LineBins(l) == {center_freq(l.hz_low, i - 1) : i \in 1..Len(l.db_values)}

BinKeys == UNION {LineBins(l) : l \in Lines}

\* d.get(k, default) on a Python dict
DictGet(d, k, default) == IF k \in DOMAIN d THEN d[k] ELSE default

\* "if k in d: del d[k]" on a Python dict
DictDel(d, k) == [j \in DOMAIN d \ {k} |-> d[j]]

\* NAMED_BANDS, in kHz
NAMED_BANDS ==
    << <<"ISM 315M", 300000, 330000>>,
       <<"ISM 433M", 420000, 450000>>,
       <<"ISM 868M", 863000, 870000>>,
       <<"ISM 915M", 902000, 928000>>,
       <<"GPS L1", 1565000, 1585000>>,
       <<"WiFi 2.4G", 2400000, 2500000>>,
       <<"ISM 5.8G", 5725000, 5875000>> >>

\* round(freq_hz / 1e6): to the nearest MHz, ties to the even one
RoundMHz(freq) ==
    LET q == freq \div 1000
        r == freq % 1000
    IN  IF r > 500 \/ (r = 500 /\ q % 2 = 1) THEN q + 1 ELSE q

\* freq_to_band_name: <<name>> for a named band, <<"M", mhz>> for the
\* generic label "<mhz>M" and <<"G", tenths of GHz>> for "<g.g>G"
freq_to_band_name(freq) ==
    LET hits == {k \in 1..Len(NAMED_BANDS) :
                    NAMED_BANDS[k][2] <= freq /\ freq <= NAMED_BANDS[k][3]}
        mhz == RoundMHz(freq)
    IN  IF hits # {}
        THEN <<NAMED_BANDS[CHOOSE k \in hits : \A j \in hits : k <= j][1]>>
        ELSE IF mhz >= 1000 THEN <<"G", RoundDiv(mhz, 100)>>
        ELSE <<"M", mhz>>

\* the type with the comparison turned round
anomaly_type_inverted(power_db, baseline_db) ==
    IF power_db < baseline_db THEN "power-spike" ELSE "power-drop"

\* anomaly_type of _emit_anomaly
anomaly_type(power_db, baseline_db) ==
    IF power_db > baseline_db THEN "power-spike" ELSE "power-drop"

\* _emit_anomaly with deviationSigma cut to one decimal, not rounded
emit_anomaly_trunc(freq_hz, power_db, baseline_db, sigma) ==
    [protocol |-> "spectrum-anomaly",
     frequencyHz |-> freq_hz,
     band |-> freq_to_band_name(freq_hz),
     measuredPower |-> Round1(power_db),
     baselinePower |-> Round1(baseline_db),
     deviationSigma |-> sigma \div (SCALE \div 10),
     anomalyType |-> anomaly_type(power_db, baseline_db)]

\* _emit_anomaly: the record written
emit_anomaly(freq_hz, power_db, baseline_db, sigma) ==
    [protocol |-> "spectrum-anomaly",
     frequencyHz |-> freq_hz,
     band |-> freq_to_band_name(freq_hz),
     measuredPower |-> Round1(power_db),
     baselinePower |-> Round1(baseline_db),
     deviationSigma |-> Round1(sigma),
     anomalyType |-> anomaly_type(power_db, baseline_db)]

\* the streak counter counting from 0 on the first reading
next_streak_from_zero(counts, freq_hz) == DictGet(counts, freq_hz, -1) + 1

\* "self.streaks[freq_hz] = self.streaks.get(freq_hz, 0) + 1"
next_streak(counts, freq_hz) == DictGet(counts, freq_hz, 0) + 1

\* the else branch of _check_anomaly dropping the streak only
reset_streak_keep_flag(st, freq_hz) ==
    [st EXCEPT !.streaks = DictDel(@, freq_hz)]

\* the else branch of _check_anomaly: "if freq_hz in self.streaks: del ..."
\* and "if freq_hz in self.emitted: del ..."
reset_streak(st, freq_hz) ==
    [st EXCEPT !.streaks = DictDel(@, freq_hz),
               !.emitted = DictDel(@, freq_hz)]

\* _check_anomaly with the "not self.emitted.get(...)" test left out
check_anomaly_reemit(st, freq_hz, power_db, sigma, stats, threshold) ==
    IF sigma > threshold * SCALE
    THEN LET n == next_streak(st.streaks, freq_hz)
             emit == n >= MIN_STREAK
         IN  [st EXCEPT
                !.streaks = DictSet(@, freq_hz, n),
                !.out = IF emit
                        THEN Append(@, emit_anomaly(freq_hz, power_db,
                                                    current_mean(stats), sigma))
                        ELSE @,
                !.emitted = IF emit THEN DictSet(@, freq_hz, TRUE) ELSE @,
                !.anomaly_count = IF emit THEN @ + 1 ELSE @]
    ELSE reset_streak(st, freq_hz)

\* _check_anomaly on the processor state st (bins, streaks, emitted,
\* anomaly_count and the records written so far)
check_anomaly(st, freq_hz, power_db, sigma, stats, threshold) ==
    IF sigma > threshold * SCALE
    THEN LET n == next_streak(st.streaks, freq_hz)
             emit == n >= MIN_STREAK /\ ~DictGet(st.emitted, freq_hz, FALSE)
         IN  [st EXCEPT
                !.streaks = DictSet(@, freq_hz, n),
                !.out = IF emit
                        THEN Append(@, emit_anomaly(freq_hz, power_db,
                                                    current_mean(stats), sigma))
                        ELSE @,
                !.emitted = IF emit THEN DictSet(@, freq_hz, TRUE) ELSE @,
                !.anomaly_count = IF emit THEN @ + 1 ELSE @]
    ELSE reset_streak(st, freq_hz)

\* _finalize_learning without the "stats.count >= 3" test
finalize_bins_all(b) == [k \in DOMAIN b |-> finalize_learning(b[k])]

\* _finalize_learning: finalize every bin with count >= 3
finalize_bins(b) ==
    [k \in DOMAIN b |->
        IF b[k].count >= MIN_COUNT THEN finalize_learning(b[k]) ELSE b[k]]

\* one iteration of "for i, db in enumerate(db_values)"; tracking is
\* "not self.learning"
ProcessBin(st, freq_hz, db, tracking, threshold) ==
    LET old == IF freq_hz \in DOMAIN st.bins THEN st.bins[freq_hz]
                                             ELSE NewBinStats
        stats == update(old, db)
        st1 == [st EXCEPT !.bins = DictSet(@, freq_hz, stats)]
    IN  IF tracking
        THEN LET sigma == deviation_sigma(stats, db)
                 st2 == check_anomaly(st1, freq_hz, db, sigma, stats, threshold)
             IN  [st2 EXCEPT !.run[freq_hz] =
                                IF sigma > threshold * SCALE THEN @ + 1 ELSE 0]
        ELSE st1

\* the loop "for i, db in enumerate(db_values)" from index i on
RECURSIVE ProcessBins(_, _, _, _, _)
ProcessBins(st, l, i, tracking, threshold) ==
    IF i > Len(l.db_values) THEN st
    ELSE ProcessBins(ProcessBin(st, center_freq(l.hz_low, i - 1),
                                l.db_values[i] * SCALE, tracking, threshold),
                     l, i + 1, tracking, threshold)

\* the elements of a set of integers in ascending order
RECURSIVE Ascending(_)
Ascending(S) ==
    IF S = {} THEN <<>>
    ELSE LET m == CHOOSE x \in S : \A y \in S : x <= y
         IN  <<m>> \o Ascending(S \ {m})

\* _emit_baseline_summary writing one record per bin, bands not merged
emit_baseline_summary_per_bin(b) ==
    LET order == Ascending({k \in DOMAIN b : b[k].count >= MIN_COUNT})
    IN  [n \in 1..Len(order) |->
            LET k == order[n]
            IN  [protocol |-> "spectrum-baseline",
                 band |-> freq_to_band_name(k),
                 meanPower |-> Round1(current_mean(b[k])),
                 minPower |-> Round1(current_mean(b[k])),
                 maxPower |-> Round1(current_mean(b[k])),
                 binCount |-> 1]]

\* _emit_baseline_summary: one record per band holding a bin with
\* count >= 3 (the records are listed by ascending lowest bin of the band;
\* stdPower is left out)
emit_baseline_summary(b) ==
    LET valid == {k \in DOMAIN b : b[k].count >= MIN_COUNT}
        members(k) == {j \in valid : freq_to_band_name(j) = freq_to_band_name(k)}
        firsts == {k \in valid : \A j \in members(k) : k <= j}
        order == Ascending(firsts)
        powers(k) == {current_mean(b[j]) : j \in members(k)}
        total(k) == LET RECURSIVE Sum(_)
                        Sum(S) == IF S = {} THEN 0
                                  ELSE LET x == CHOOSE y \in S : TRUE
                                       IN  current_mean(b[x]) + Sum(S \ {x})
                    IN  Sum(members(k))
    IN  [n \in 1..Len(order) |->
            LET k == order[n]
            IN  [protocol |-> "spectrum-baseline",
                 band |-> freq_to_band_name(k),
                 meanPower |-> Round1(RoundDiv(total(k), Cardinality(members(k)))),
                 minPower |-> Round1(CHOOSE x \in powers(k) :
                                        \A y \in powers(k) : x <= y),
                 maxPower |-> Round1(CHOOSE x \in powers(k) :
                                        \A y \in powers(k) : x >= y),
                 binCount |-> Cardinality(members(k))]]

InitSweep ==
    /\ bins = [k \in {} |-> NewBinStats]
    /\ streaks = [k \in {} |-> 0]
    /\ emitted = [k \in {} |-> FALSE]
    /\ start_time = <<>>
    /\ learning = TRUE
    /\ sweep_count = 0
    /\ anomaly_count = 0
    /\ anomaly_sigma \in AnomalySigmas
    /\ sw_clock = 0
    /\ sw_out = <<>>
    /\ lines = 0
    /\ last_line = <<>>
    /\ run = [k \in BinKeys |-> 0]

\* process_line on a line that parses to l, the max-th line at most
ProcessLineWithin(l, max) ==
    /\ lines < max
    /\ lines' = lines + 1
    /\ last_line' = <<l>>
    /\ LET now == sw_clock
           started == IF start_time = <<>> THEN now ELSE start_time[1]
           elapsed == now - started
           finalize == learning /\ elapsed >= BASELINE_SECONDS
           bins1 == IF finalize THEN finalize_bins(bins) ELSE bins
           learning1 == IF finalize THEN FALSE ELSE learning
           sweeps == IF l.hz_low < SWEEP_START_KHZ THEN sweep_count + 1
                                                  ELSE sweep_count
       IN  \E st \in {ProcessBins([bins |-> bins1, streaks |-> streaks,
                                   emitted |-> emitted,
                                   anomaly_count |-> anomaly_count,
                                   out |-> <<>>, run |-> run],
                                  l, 1, ~learning1, anomaly_sigma)} :
           /\ start_time' = <<started>>
           /\ learning' = learning1
           /\ bins' = st.bins
           /\ streaks' = st.streaks
           /\ emitted' = st.emitted
           /\ anomaly_count' = st.anomaly_count
           /\ run' = st.run
           /\ sweep_count' = sweeps
           /\ sw_out' = st.out \o
                  IF /\ l.hz_low < SWEEP_START_KHZ
                     /\ ~learning1
                     /\ sweeps % EMIT_INTERVAL = 0
                  THEN emit_baseline_summary(st.bins) ELSE <<>>
    /\ UNCHANGED <<anomaly_sigma, sw_clock>>
    /\ UNCHANGED bleVars
    /\ UNCHANGED fnVars

\* process_line on a line that parses to l
ProcessLine(l) == ProcessLineWithin(l, MaxLines)

\* the wall clock of the sweep processor advances (monotonic).  The
\* processor reads the clock only as the difference to start_time, so the
\* clock is counted in whole seconds from the first parsed line on.
SweepTick ==
    /\ sw_clock < MaxSweepTime
    /\ start_time # <<>>
    /\ sw_clock' = sw_clock + 1
    /\ UNCHANGED <<bins, streaks, emitted, start_time, learning, sweep_count,
                   anomaly_count, anomaly_sigma, sw_out, lines, last_line, run>>
    /\ UNCHANGED bleVars
    /\ UNCHANGED fnVars

NextSweep ==
    \/ \E l \in Lines : ProcessLine(l)
    \/ SweepTick

(***************************************************************************)
(* Lines that carry a reading for each of the two bins, for the streaks of *)
(* two bins side by side: both at the baseline, both above it, and a line  *)
(* that reads the first bin only, at the baseline.                         *)
(***************************************************************************)
MaxStreakLines == 8

StreakLines ==
    {[hz_low |-> 9000, db_values |-> v] : v \in {<<10, 10>>, <<20, 20>>, <<10>>}}

StreakLine(l) == ProcessLineWithin(l, MaxStreakLines)

NextStreak ==
    \/ \E l \in StreakLines : StreakLine(l)
    \/ SweepTick

(***************************************************************************)
(* process_line from the text of the line.  A line is the sequence of its  *)
(* comma-separated fields after strip(); a field is a number ("num", with  *)
(* its value), the empty string ("empty"), text that starts with "#"       *)
(* ("hash") or other text that float() rejects ("text").  The empty line   *)
(* is the one empty field that "".split(",") returns.                      *)
(***************************************************************************)
Num(v) == [kind |-> "num", val |-> v]
Text == [kind |-> "text", val |-> 0]
Hash == [kind |-> "hash", val |-> 0]
Empty == [kind |-> "empty", val |-> 0]

\* a well-formed line: date, time, hz_low, hz_high, hz_bin_width, the
\* sample count, and the dB fields
CsvLine(hz_low, samples, db_fields) ==
    <<Text, Text, Num(hz_low), Num(hz_low + HZ_BIN_WIDTH * Len(db_fields)),
      Num(HZ_BIN_WIDTH), samples>> \o db_fields

GoodLine == CsvLine(9000, Num(20), <<Num(10)>>)

RawLines ==
    { GoodLine,
      CsvLine(9000, Num(20), <<Num(20)>>),
      CsvLine(9000, Text, <<Num(10)>>),
      CsvLine(9000, Num(20), <<Empty>>),
      <<Empty>>,
      [GoodLine EXCEPT ![1] = Hash],
      SubSeq(GoodLine, 1, 6),
      [GoodLine EXCEPT ![3] = Text],
      [GoodLine EXCEPT ![4] = Text],
      [GoodLine EXCEPT ![5] = Empty],
      CsvLine(9000, Num(20), <<Num(20), Text>>) }

\* parsing that skips the dB fields float() rejects
parse_line_skip_bad_db(raw) ==
    IF raw = <<Empty>> \/ raw[1].kind = "hash" THEN <<>>
    ELSE IF Len(raw) < 7 THEN <<>>
    ELSE IF \E k \in 3..5 : raw[k].kind # "num" THEN <<>>
    ELSE <<[hz_low |-> raw[3].val,
            db_values |-> LET db == SelectSeq(SubSeq(raw, 7, Len(raw)),
                                              LAMBDA f : f.kind = "num")
                          IN  [i \in 1..Len(db) |-> db[i].val]]>>

\* the head of process_line: <<>> when the line is dropped ("return"), else
\* <<the parsed line>>.  parts[5], the sample count, is not converted; the
\* empty dB fields are skipped ("if v.strip()").
parse_line(raw) ==
    IF raw = <<Empty>> \/ raw[1].kind = "hash" THEN <<>>
    ELSE IF Len(raw) < 7 THEN <<>>
    ELSE IF \E k \in 3..5 : raw[k].kind # "num" THEN <<>>
    ELSE LET db == SelectSeq(SubSeq(raw, 7, Len(raw)),
                             LAMBDA f : f.kind # "empty")
         IN  IF \E i \in 1..Len(db) : db[i].kind # "num" THEN <<>>
             ELSE <<[hz_low |-> raw[3].val,
                     db_values |-> [i \in 1..Len(db) |-> db[i].val]]>>

\* process_line(line) on the text raw
ReadLine(raw) ==
    IF parse_line(raw) = <<>>
    THEN /\ lines < MaxLines
         /\ lines' = lines + 1
         /\ last_line' = <<>>
         /\ sw_out' = <<>>
         /\ UNCHANGED <<bins, streaks, emitted, start_time, learning,
                        sweep_count, anomaly_count, anomaly_sigma, sw_clock,
                        run>>
         /\ UNCHANGED bleVars
         /\ UNCHANGED fnVars
    ELSE ProcessLine(parse_line(raw)[1])

NextParse ==
    \/ \E raw \in RawLines : ReadLine(raw)
    \/ SweepTick

(***************************************************************************)
(* The run loop of the BLE processor at the grain of one dwell: one step   *)
(* is one iteration of "for channel, freq_hz in channels", with the noise  *)
(* statistics of process_energy and the early returns of process_packets.  *)
(***************************************************************************)

\* at most MaxAttempts calls of capture_channel() are followed
MaxAttempts == 4
\* the lengths (samples) of the buffers capture_channel() returns, the noise
\* floors (dB) process_energy computes from them, and the advertisers whose
\* packets are on air during a dwell, in the order of their position: none,
\* one, the same one twice, two different ones
SamplesValues == {50, 200, 400}
NoiseValues == {-40, -30}
Heard ==
    LET c1 == [macHash |-> "m1", advType |-> "ADV_IND"]
        c2 == [macHash |-> "m2", advType |-> "ADV_IND"]
    IN  {<<>>, <<c1>>, <<c1, c1>>, <<c1, c2>>}

\* "if len(iq) < 100", SAMPLE_RATE // BLE_SYMBOL_RATE, "if n_symbols < 64",
\* len(BLE_AA_BITS) and the 40 of "n = len(bits) - aa_len - 40"
MIN_IQ_SAMPLES == 100
SAMPLES_PER_SYMBOL == 4
MIN_SYMBOLS == 64
AA_LEN == 32
HEADER_SPACE == 40

\* round(x, 2): a value in units of 1/SCALE rounded to hundredths
Round2(x) == RoundDiv(x, SCALE \div 100)

\* update_noise_baseline: the statistics of the channel after the sample
update_noise_baseline(stats, channel, noise_db) ==
    LET old == IF channel \in DOMAIN stats THEN stats[channel]
                                           ELSE [n |-> 0, mean |-> 0, m2 |-> 0]
        n == old.n + 1
        delta == noise_db - old.mean
        mean == old.mean + RoundDiv(delta, n)
        delta2 == noise_db - mean
    IN  DictSet(stats, channel,
                [n |-> n, mean |-> mean, m2 |-> old.m2 + delta * delta2])

\* process_energy: the ble-energy record of the dwell (stats are the noise
\* statistics after update_noise_baseline)
process_energy(stats, channel, noise_db, dwell) ==
    [protocol |-> "ble-energy",
     channel |-> channel,
     dwell |-> dwell,
     noise |-> Round1(noise_db),
     noiseBaseline |-> Round2(stats[channel].mean)]

\* the loop of _find_and_decode_packets over the candidates that reach the
\* dedup check, from the k-th on; st holds last_seen, the records written
\* and the last candidate decoded
RECURSIVE find_and_decode_packets(_, _, _, _, _, _)
find_and_decode_packets(st, heard, k, channel, dwell, now) ==
    IF k > Len(heard) THEN st
    ELSE LET sig == AdvSig(heard[k])
             dec == <<[cand |-> heard[k], index |-> k - 1]>>
             st1 == IF Suppressed(st.last_seen, sig, now)
                    THEN [st EXCEPT !.decoded = dec]
                    ELSE [last_seen |-> DictSet(st.last_seen, sig, now),
                          decoded |-> dec,
                          out |-> output(st.out,
                                         [protocol |-> "ble-adv",
                                          channel |-> channel,
                                          dwell |-> dwell,
                                          index |-> k - 1,
                                          signature |-> sig])]
         IN  find_and_decode_packets(st1, heard, k + 1, channel, dwell, now)

\* process_packets with the "n_symbols < 64" return left out
process_packets_no_symbol_check(st, n_samples, heard, channel, dwell, now) ==
    LET n_symbols == (n_samples - 1) \div SAMPLES_PER_SYMBOL
        n == n_symbols - AA_LEN - HEADER_SPACE
    IN  IF n_samples < MIN_IQ_SAMPLES THEN st
        ELSE find_and_decode_packets(st, heard, 1, channel, dwell, now)

\* process_packets: returns early on a short buffer, on too few symbols and
\* when no window is left to scan (n <= 0)
process_packets(st, n_samples, heard, channel, dwell, now) ==
    LET n_symbols == (n_samples - 1) \div SAMPLES_PER_SYMBOL
        n == n_symbols - AA_LEN - HEADER_SPACE
    IN  IF n_samples < MIN_IQ_SAMPLES THEN st
        ELSE IF n_symbols < MIN_SYMBOLS THEN st
        ELSE IF n <= 0 THEN st
        ELSE find_and_decode_packets(st, heard, 1, channel, dwell, now)

\* capture_channel() returned None: log, sleep, continue
DwellAbsent ==
    /\ pc = "capture"
    /\ attempts < MaxAttempts
    /\ attempts' = attempts + 1
    /\ tried' = <<BLE_CHANNELS[chan]>>
    /\ iq' = <<>>
    /\ out' = <<>>
    /\ decoded' = <<>>
    /\ NextChannel
    /\ UNCHANGED <<last_seen, hop_count, clock, scan_i, adv_log, pending,
                   cleanup_hops, noise_stats>>
    /\ UNCHANGED sweepVars
    /\ UNCHANGED fnVars

\* capture_channel() returned a buffer of n_samples samples: process_energy,
\* process_packets, self.hop_count += 1
DwellOk(n_samples, noise_db, heard) ==
    /\ pc = "capture"
    /\ attempts < MaxAttempts
    /\ attempts' = attempts + 1
    /\ tried' = <<BLE_CHANNELS[chan]>>
    /\ iq' = <<n_samples>>
    /\ LET channel == BLE_CHANNELS[chan]
           stats == update_noise_baseline(noise_stats, channel, noise_db)
           energy == process_energy(stats, channel, noise_db, hop_count)
           st == process_packets([last_seen |-> last_seen,
                                  decoded |-> <<>>,
                                  out |-> output(<<>>, energy)],
                                 n_samples, heard, channel, hop_count, clock)
       IN  /\ noise_stats' = stats
           /\ last_seen' = st.last_seen
           /\ out' = st.out
           /\ decoded' = st.decoded
    /\ hop_count' = hop_count + 1
    /\ NextChannel
    /\ UNCHANGED <<clock, scan_i, adv_log, pending, cleanup_hops>>
    /\ UNCHANGED sweepVars
    /\ UNCHANGED fnVars

NextHop ==
    \/ DwellAbsent
    \/ \E n_samples \in SamplesValues, noise_db \in NoiseValues, heard \in Heard :
          DwellOk(n_samples, noise_db * SCALE, heard)
    \/ Periodic
    \/ Tick

(***************************************************************************)
(* The bit-level functions of the BLE processor: whitening, byte packing,  *)
(* CRC-24 and the scan of _find_and_decode_packets over a bit stream.      *)
(* Bits are the numbers 0 and 1, bytes the numbers 0..255; a sequence is   *)
(* indexed from 1, so the bit at Python index i is bits[i + 1].            *)
(***************************************************************************)

\* the powers of two, and a ^ b on naturals below 2^n
RECURSIVE Pow2(_)
Pow2(n) == IF n = 0 THEN 1 ELSE 2 * Pow2(n - 1)

RECURSIVE BitXor(_, _, _)
BitXor(a, b, n) ==
    IF n = 0 THEN 0
    ELSE (((a % 2) + (b % 2)) % 2) + 2 * BitXor(a \div 2, b \div 2, n - 1)

\* format(v, "0<n>b"): the n bits of v, most significant first
RECURSIVE BitsMsbFirst(_, _)
BitsMsbFirst(v, n) ==
    IF n = 0 THEN <<>> ELSE Append(BitsMsbFirst(v \div 2, n - 1), v % 2)

\* BLE_ACCESS_ADDRESS = 0x8E89BED6 as the bytes 0x8E, 0x89, 0xBE, 0xD6, and
\* BLE_AA_BITS, its 32 bits most significant first
BLE_ACCESS_ADDRESS == <<142, 137, 190, 214>>
BLE_AA_BITS ==
    BitsMsbFirst(BLE_ACCESS_ADDRESS[1], 8) \o BitsMsbFirst(BLE_ACCESS_ADDRESS[2], 8)
        \o BitsMsbFirst(BLE_ACCESS_ADDRESS[3], 8)
        \o BitsMsbFirst(BLE_ACCESS_ADDRESS[4], 8)

\* BLE_CRC_POLY = 0x100065B and BLE_CRC_INIT = 0x555555
BLE_CRC_POLY == 16778843
BLE_CRC_INIT == 5592405

\* one step of the LFSR of ble_dewhiten: feedback = bit 0 XOR bit 4, shift
\* right by one, feedback into bit 6
lfsr_step(lfsr) ==
    LET feedback == ((lfsr % 2) + ((lfsr \div 16) % 2)) % 2
    IN  (lfsr \div 2) + 64 * feedback

\* the states the LFSR is in at the first n bits, starting from lfsr.  The
\* range is halved at each level, and the first half is evaluated before
\* the second is entered, to keep the evaluation shallow; the states are
\* those of the loop, in order.
RECURSIVE lfsr_states(_, _)
lfsr_states(lfsr, n) ==
    IF n = 0 THEN <<>>
    ELSE IF n = 1 THEN <<lfsr>>
    ELSE LET h == n \div 2
             first == lfsr_states(lfsr, h)
             next == lfsr_step(first[h])
         IN  IF next >= 0 THEN first \o lfsr_states(next, n - h) ELSE <<>>

\* a whitener whose LFSR is seeded from the first data bit instead of the
\* constant bit 6
ble_dewhiten_seed_from_data(in_bits, channel) ==
    LET seed == (channel % 64) + 64 * (IF in_bits = <<>> THEN 1 ELSE in_bits[1])
        states == lfsr_states(seed, Len(in_bits))
    IN  [k \in 1..Len(in_bits) |-> (in_bits[k] + (states[k] % 2)) % 2]

\* ble_dewhiten: lfsr = (channel & 0x3F) | 0x40; out[i] = data_bits[i] ^
\* (lfsr & 1), then one step of the LFSR
ble_dewhiten(in_bits, channel) ==
    LET seed == (channel % 64) + 64
        states == lfsr_states(seed, Len(in_bits))
    IN  [k \in 1..Len(in_bits) |-> (in_bits[k] + (states[k] % 2)) % 2]

\* bits_to_bytes: whole bytes only, least significant bit first
bits_to_bytes(b) ==
    [i \in 1..(Len(b) \div 8) |->
        LET RECURSIVE Val(_)
            Val(j) == IF j = 8 THEN 0
                      ELSE b[(i - 1) * 8 + j + 1] * Pow2(j) + Val(j + 1)
        IN  Val(0)]

\* the inner loop of crc24_ble: r shifts of the register
RECURSIVE crc24_shift(_, _)
crc24_shift(crc, r) ==
    IF r = 0 THEN crc
    ELSE crc24_shift(IF crc >= 8388608
                     THEN BitXor(crc * 2, BLE_CRC_POLY, 25) % 16777216
                     ELSE (crc * 2) % 16777216,
                     r - 1)

\* the outer loop of crc24_ble over the bytes data[lo..hi], from register
\* crc; the range is halved at each level and the first half is evaluated
\* first, the bytes are taken in order
RECURSIVE crc24_over(_, _, _, _)
crc24_over(data, lo, hi, crc) ==
    IF lo > hi THEN crc
    ELSE IF lo = hi
         THEN crc24_shift(BitXor(crc, data[lo] * 65536, 24), 8)
    ELSE LET mid == (lo + hi) \div 2
             half == crc24_over(data, lo, mid, crc)
         IN  IF half >= 0 THEN crc24_over(data, mid + 1, hi, half) ELSE 0

crc24_ble(data) == crc24_over(data, 1, Len(data), BLE_CRC_INIT)

\* ADV_TYPES.get(pdu_type, f"UNKNOWN_{pdu_type}") for the 4-bit pdu_type
ADV_TYPES ==
    <<"ADV_IND", "ADV_DIRECT_IND", "ADV_NONCONN_IND", "SCAN_REQ", "SCAN_RSP",
      "CONNECT_IND", "ADV_SCAN_IND", "UNKNOWN_7", "UNKNOWN_8", "UNKNOWN_9",
      "UNKNOWN_10", "UNKNOWN_11", "UNKNOWN_12", "UNKNOWN_13", "UNKNOWN_14",
      "UNKNOWN_15">>

\* the header sanity check: payload_length from 6 to 37
MIN_PAYLOAD == 6
MAX_PAYLOAD == 37
\* the mismatched bits the access-address correlation allows
MAX_MISMATCHES == 1

\* np.sum(bits[i:i + aa_len] != BLE_AA_BITS), i counted from 0
mismatches(b, i) ==
    Cardinality({k \in 1..AA_LEN : b[i + k] # BLE_AA_BITS[k]})

\* hash_mac(mac_bytes): SHA-256 of the six bytes, taken as collision-free
hash_mac(mac_bytes) == <<"sha256", mac_bytes>>

\* the correlation that lets two mismatched bits through
correlates_two(b, i) == mismatches(b, i) <= MAX_MISMATCHES + 1

\* the access-address check at index i: "if mismatches > 1: continue"
correlates(b, i) == mismatches(b, i) <= MAX_MISMATCHES

\* the sanity check with the upper limit excluded
length_ok_exclusive(payload_length) ==
    ~(payload_length < MIN_PAYLOAD \/ payload_length >= MAX_PAYLOAD)

\* the sanity check on the header: "if payload_length < 6 or
\* payload_length > 37: continue"
length_ok(payload_length) ==
    ~(payload_length < MIN_PAYLOAD \/ payload_length > MAX_PAYLOAD)

\* a CRC check that compares the received bytes read big-endian
crc_check_big_endian(crc_bytes, crc_data) ==
    LET received_crc == IF Len(crc_bytes) >= 3
                        THEN crc_bytes[3] + 256 * crc_bytes[2]
                                 + 65536 * crc_bytes[1]
                        ELSE 0
    IN  received_crc = crc24_ble(crc_data)

\* crc_valid: received_crc, the three bytes read little-endian, against
\* crc24_ble(header_bytes + payload_bytes)
crc_check(crc_bytes, crc_data) ==
    LET received_crc == IF Len(crc_bytes) >= 3
                        THEN crc_bytes[1] + 256 * crc_bytes[2]
                                 + 65536 * crc_bytes[3]
                        ELSE 0
    IN  received_crc = crc24_ble(crc_data)

\* payload[a:b] on a Python bytes object (0-based, b exclusive, clipped)
Slice(s, a, b) == SubSeq(s, a + 1, IF b > Len(s) THEN Len(s) ELSE b)

\* f"{n:04x}": the four hexadecimal digits of n
Hex4(n) == <<n \div 4096, (n \div 256) % 16, (n \div 16) % 16, n % 16>>

\* struct.unpack("<H", b)[0]
UnpackLE16(b) == b[1] + 256 * b[2]

\* struct.unpack(">H", b)[0]
UnpackBE16(b) == 256 * b[1] + b[2]

\* struct.unpack("b", b)[0]
UnpackInt8(b) == IF b[1] >= 128 THEN b[1] - 256 ELSE b[1]

\* COMPANY_IDS.get(company_id, "Unknown")
company_name(company_id) ==
    CASE company_id = Hex4(76) -> "Apple"
      [] company_id = Hex4(6) -> "Microsoft"
      [] company_id = Hex4(29) -> "Qualcomm"
      [] company_id = Hex4(79) -> "Nordic Semiconductor"
      [] company_id = Hex4(89) -> "Nordic Semiconductor"
      [] company_id = Hex4(117) -> "Samsung"
      [] company_id = Hex4(135) -> "Garmin"
      [] company_id = Hex4(224) -> "Google"
      [] company_id = Hex4(343) -> "Tile"
      [] company_id = Hex4(369) -> "Amazon"
      [] company_id = Hex4(741) -> "Chipolo"
      [] company_id = Hex4(767) -> "Espressif"
      [] OTHER -> "Unknown"

\* the string "004c"
APPLE_ID == Hex4(76)

\* d.update(e) on Python dicts
DictUpdate(d, e) ==
    [k \in DOMAIN d \cup DOMAIN e |-> IF k \in DOMAIN e THEN e[k] ELSE d[k]]

\* the empty dict
EmptyDict == [k \in {} |-> 0]

\* the if / elif chain of parse_ad_structures on one structure
ad_structure(fields, ad_type, data) ==
    IF ad_type = 1 /\ Len(data) >= 1
    THEN DictSet(fields, "flags", data[1])
    ELSE IF ad_type \in {8, 9}
    THEN DictSet(fields, "deviceName", <<"utf-8", data>>)
    ELSE IF ad_type = 10 /\ Len(data) >= 1
    THEN DictSet(fields, "txPower", UnpackInt8(data))
    ELSE IF ad_type \in {2, 3}
    THEN IF Len(data) >= 2 /\ Len(data) % 2 = 0
         THEN DictSet(fields, "serviceUuids",
                      [j \in 1..(Len(data) \div 2) |->
                          Hex4(UnpackLE16(Slice(data, 2 * j - 2, 2 * j)))])
         ELSE fields
    ELSE IF ad_type = 255 /\ Len(data) >= 2
    THEN DictSet(DictSet(fields, "manufacturerId", Hex4(UnpackLE16(data))),
                 "manufacturerName", company_name(Hex4(UnpackLE16(data))))
    ELSE fields

\* the two break tests of the loops over AD structures, with the overrun
\* test "i + 1 + length >= len(payload)"
ad_breaks_exact_fit(payload, i) ==
    \/ i + 1 >= Len(payload)
    \/ payload[i + 1] = 0
    \/ i + 1 + payload[i + 1] >= Len(payload)

\* the two break tests of the loops over AD structures: "if i + 1 >=
\* len(payload)" and "if length == 0 or i + 1 + length > len(payload)"
ad_breaks(payload, i) ==
    \/ i + 1 >= Len(payload)
    \/ payload[i + 1] = 0
    \/ i + 1 + payload[i + 1] > Len(payload)

\* the indexes the loop reads before it breaks at index i
break_reads(payload, i) == IF i + 1 >= Len(payload) THEN {} ELSE {i}

\* BleProcessor._extract_mfg_payload from index i on; <<>> for None
RECURSIVE extract_mfg_payload(_, _)
extract_mfg_payload(data, i) ==
    IF i >= Len(data) \/ ad_breaks(data, i) THEN <<>>
    ELSE LET length == data[i + 1]
         IN  IF data[i + 2] = 255 /\ length >= 3
             THEN <<Slice(data, i + 4, i + 1 + length)>>
             ELSE extract_mfg_payload(data, i + 1 + length)

\* APPLE_CONTINUITY_TYPES.get(sub_type, f"Unknown-0x{sub_type:02x}")
continuity_type(sub_type) ==
    CASE sub_type = 2 -> <<"iBeacon">>
      [] sub_type = 5 -> <<"AirDrop">>
      [] sub_type = 7 -> <<"AirPods">>
      [] sub_type = 12 -> <<"Handoff">>
      [] sub_type = 15 -> <<"NearbyAction">>
      [] sub_type = 16 -> <<"NearbyInfo">>
      [] sub_type = 18 -> <<"FindMy">>
      [] OTHER -> <<"Unknown-0x", sub_type \div 16, sub_type % 16>>

\* parse_apple_continuity
parse_apple_continuity(mfg_data) ==
    IF Len(mfg_data) < 2 THEN EmptyDict
    ELSE LET sub_type == mfg_data[1]
             payload == Slice(mfg_data, 2, Len(mfg_data))
             fields == DictSet(EmptyDict, "continuityType",
                               continuity_type(sub_type))
         IN  IF sub_type = 2 /\ Len(payload) >= 20
             THEN LET beacon ==
                         DictUpdate(fields,
                            [k \in {"ibeaconUuid", "ibeaconMajor", "ibeaconMinor"} |->
                                CASE k = "ibeaconUuid" -> Slice(payload, 0, 16)
                                  [] k = "ibeaconMajor" ->
                                        UnpackBE16(Slice(payload, 16, 18))
                                  [] OTHER -> UnpackBE16(Slice(payload, 18, 20))])
                  IN  IF Len(payload) >= 21
                      THEN DictSet(beacon, "txPower",
                                   UnpackInt8(Slice(payload, 20, 21)))
                      ELSE beacon
             ELSE IF sub_type = 16 /\ Len(payload) >= 1
             THEN DictSet(fields, "activityLevel", (payload[1] \div 16) % 16)
             ELSE IF sub_type = 15 /\ Len(payload) >= 1
             THEN DictSet(fields, "nearbyAction",
                          <<"0x", payload[1] \div 16, payload[1] % 16>>)
             ELSE IF sub_type = 18
             THEN DictSet(fields, "trackerType", "Apple Find My")
             ELSE fields

\* parse_ad_structures(payload), from index i on with the fields so far
RECURSIVE parse_ad_structures(_, _, _)
parse_ad_structures(payload, i, fields) ==
    IF i >= Len(payload) \/ ad_breaks(payload, i) THEN fields
    ELSE parse_ad_structures(
             payload, i + 1 + payload[i + 1],
             ad_structure(fields, payload[i + 2],
                          Slice(payload, i + 2, i + 1 + payload[i + 1])))

\* the Apple branch of _find_and_decode_packets: <<the bytes handed to
\* parse_apple_continuity>>, or <<>> when it is not called
apple_payload(fields, data) ==
    LET mfg_payload ==
            IF /\ DictGet(fields, "manufacturerId", <<>>) = APPLE_ID
               /\ Len(data) > 4
            THEN extract_mfg_payload(data, 0)
            ELSE <<>>
    IN  IF mfg_payload # <<>> /\ mfg_payload[1] # <<>> THEN mfg_payload ELSE <<>>

\* sorted() on a list of four-digit hexadecimal strings
RECURSIVE Sorted(_)
Sorted(u) ==
    IF u = <<>> THEN <<>>
    ELSE LET k == CHOOSE j \in 1..Len(u) : \A m \in 1..Len(u) :
                      \/ UnpackBE16(<<16 * u[j][1] + u[j][2], 16 * u[j][3] + u[j][4]>>)
                           < UnpackBE16(<<16 * u[m][1] + u[m][2], 16 * u[m][3] + u[m][4]>>)
                      \/ u[j] = u[m]
         IN  <<u[k]>> \o Sorted([m \in 1..(Len(u) - 1) |->
                                    IF m < k THEN u[m] ELSE u[m + 1]])

\* compute_fingerprint: SHA-256 of the six parts, modelled as the
\* (collision-free) tuple of what is hashed
compute_fingerprint(fields, pdu_type, payload_length) ==
    <<"sha256",
      DictGet(fields, "manufacturerId", <<>>),
      Sorted(DictGet(fields, "serviceUuids", <<>>)),
      pdu_type,
      DictGet(fields, "txPower", <<>>),
      payload_length,
      DictGet(fields, "continuityType", <<>>)>>

\* the key parts of the signature without the advertising type
dedup_key_mac_only(mac_hash, adv_type) == <<mac_hash>>

\* the key parts f"macHash={mac_hash}&advType={adv_type}"
dedup_key(mac_hash, adv_type) == <<mac_hash, adv_type>>

\* the body of the scan loop of _find_and_decode_packets for an index i
\* whose window correlated. st holds last_seen, out (the lines written) and
\* log (history: one entry per such index, with the "continue" it left by,
\* or "emitted", and the payload_length it read, -1 before the header).
decode_candidate(st, b, i, channel, now) ==
    LET remaining_bits == ble_dewhiten(SubSeq(b, i + AA_LEN + 1, Len(b)), channel)
        header_bytes == bits_to_bytes(SubSeq(remaining_bits, 1, 16))
        pdu_type == header_bytes[1] % 16
        tx_add == (header_bytes[1] \div 64) % 2
        payload_length == header_bytes[2] % 64
        total_bits_needed == 16 + payload_length * 8 + 24
        payload_bytes ==
            bits_to_bytes(SubSeq(remaining_bits, 17, 16 + payload_length * 8))
        crc_bytes ==
            bits_to_bytes(SubSeq(remaining_bits, 17 + payload_length * 8,
                                 16 + payload_length * 8 + 24))
        crc_valid == crc_check(crc_bytes, header_bytes \o payload_bytes)
        mac_hash == hash_mac(SubSeq(payload_bytes, 1, 6))
        adv_type == ADV_TYPES[pdu_type + 1]
        adv_data == SubSeq(payload_bytes, 7, Len(payload_bytes))
        parsed == parse_ad_structures(adv_data, 0, EmptyDict)
        mfg_payload == apple_payload(parsed, adv_data)
        adv_fields == IF mfg_payload # <<>>
                      THEN DictUpdate(parsed, parse_apple_continuity(mfg_payload[1]))
                      ELSE parsed
        sig == compute_signature("ble-adv", dedup_key(mac_hash, adv_type))
        left(why, len) ==
            [st EXCEPT !.log = Append(@, [index |-> i, verdict |-> why,
                                          payload_length |-> len])]
    IN  IF Len(remaining_bits) < 16 THEN left("no header", -1)
        ELSE IF Len(header_bytes) < 2 THEN left("no header", -1)
        ELSE IF ~length_ok(payload_length) THEN left("length", payload_length)
        ELSE IF Len(remaining_bits) < total_bits_needed
             THEN left("short", payload_length)
        ELSE IF Len(payload_bytes) < 6 THEN left("no address", payload_length)
        ELSE IF Suppressed(st.last_seen, sig, now)
             THEN left("dedup", payload_length)
        ELSE [last_seen |-> DictSet(st.last_seen, sig, now),
              out |-> output(st.out,
                             [protocol |-> "ble-adv",
                              signature |-> sig,
                              index |-> i,
                              channel |-> channel,
                              macHash |-> mac_hash,
                              advType |-> adv_type,
                              crcValid |-> crc_valid,
                              addressType |-> IF tx_add = 1 THEN "random"
                                              ELSE "public",
                              fingerprintId |->
                                  compute_fingerprint(adv_fields, pdu_type,
                                                      payload_length)]),
              log |-> Append(st.log, [index |-> i, verdict |-> "emitted",
                                      payload_length |-> payload_length])]

\* "for i in range(n)" over the indexes lo..hi-1, in order; the range is
\* halved at each level
RECURSIVE scan_range(_, _, _, _, _, _)
scan_range(st, b, lo, hi, channel, now) ==
    IF lo >= hi THEN st
    ELSE IF hi = lo + 1
         THEN IF correlates(b, lo)
              THEN decode_candidate(st, b, lo, channel, now)
              ELSE st
    ELSE LET mid == (lo + hi) \div 2
             half == scan_range(st, b, lo, mid, channel, now)
         IN  IF Len(half.log) >= 0
             THEN scan_range(half, b, mid, hi, channel, now)
             ELSE st

\* _find_and_decode_packets with the loop "for i in range(n + 1)"
find_and_decode_bits_inclusive(st, b, channel, now) ==
    LET n == Len(b) - AA_LEN - HEADER_SPACE
    IN  IF n <= 0 THEN st ELSE scan_range(st, b, 0, n + 1, channel, now)

\* _find_and_decode_packets(bits, channel, ...) on the bits themselves
find_and_decode_bits(st, b, channel, now) ==
    LET n == Len(b) - AA_LEN - HEADER_SPACE
    IN  IF n <= 0 THEN st ELSE scan_range(st, b, 0, n, channel, now)

(***************************************************************************)
(* The bit streams handed to _find_and_decode_packets.  A stream is built  *)
(* the way a transmitter builds an advertising packet: the access address, *)
(* then header, payload and CRC, whitened for the channel; the description *)
(* says where the access address starts, which of its bits the channel     *)
(* flipped, what the header says, whether the CRC arrived intact, how many  *)
(* bits the capture lost at the end and whether the packet is in the        *)
(* stream twice.                                                           *)
(***************************************************************************)
MaxScans == 2

\* bytes to bits, least significant bit first (the inverse of bits_to_bytes)
bytes_to_bits(bytes) ==
    [k \in 1..(8 * Len(bytes)) |->
        (bytes[((k - 1) \div 8) + 1] \div Pow2((k - 1) % 8)) % 2]

Zeros(n) == [k \in 1..n |-> 0]

\* the six address bytes of device m
MacBytes(m) == <<m, 2, 3, 4, 5, 6>>

BaseFrame ==
    [lead |-> "zeros", offset |-> 1, flips |-> {}, pdu_type |-> 0,
     tx_add |-> 1, len_byte |-> 6, mac |-> 1, bad_crc |-> FALSE, cut |-> 0,
     channel |-> 37, repeat |-> FALSE]

Frames ==
    { BaseFrame,
      [BaseFrame EXCEPT !.len_byte = 5],
      [BaseFrame EXCEPT !.len_byte = 37],
      [BaseFrame EXCEPT !.len_byte = 38],
      [BaseFrame EXCEPT !.len_byte = 70, !.mac = 2],
      [BaseFrame EXCEPT !.cut = 1, !.mac = 2],
      [BaseFrame EXCEPT !.len_byte = 37, !.cut = 24, !.mac = 3],
      [BaseFrame EXCEPT !.flips = {5}, !.offset = 2],
      [BaseFrame EXCEPT !.flips = {32}, !.offset = 3, !.mac = 3],
      [BaseFrame EXCEPT !.flips = {5, 20}],
      [BaseFrame EXCEPT !.lead = "aa", !.offset = 31],
      [BaseFrame EXCEPT !.bad_crc = TRUE, !.offset = 0],
      [BaseFrame EXCEPT !.bad_crc = TRUE, !.mac = 2, !.channel = 39],
      [BaseFrame EXCEPT !.pdu_type = 9, !.tx_add = 0],
      [BaseFrame EXCEPT !.cut = 47, !.mac = 4],
      [BaseFrame EXCEPT !.cut = 48, !.mac = 4],
      [BaseFrame EXCEPT !.len_byte = 37, !.bad_crc = TRUE, !.channel = 38],
      [BaseFrame EXCEPT !.repeat = TRUE, !.mac = 5] }

\* the bits of the stream described by f
Stream(f) ==
    LET nbytes == f.len_byte % 64
        payload == [k \in 1..nbytes |-> IF k <= 6 THEN MacBytes(f.mac)[k] ELSE 0]
        pdu == <<f.pdu_type + 64 * f.tx_add, f.len_byte>> \o payload
        crc == crc24_ble(pdu)
        sent == IF f.bad_crc THEN BitXor(crc, 1, 24) ELSE crc
        on_air == ble_dewhiten(
                      bytes_to_bits(pdu \o <<sent % 256, (sent \div 256) % 256,
                                             sent \div 65536>>),
                      f.channel)
        lead == IF f.lead = "aa" THEN SubSeq(BLE_AA_BITS, 1, f.offset)
                ELSE Zeros(f.offset)
        address == [k \in 1..AA_LEN |->
                       IF k \in f.flips THEN 1 - BLE_AA_BITS[k]
                       ELSE BLE_AA_BITS[k]]
        packet == address \o SubSeq(on_air, 1, Len(on_air) - f.cut)
    IN  lead \o packet \o (IF f.repeat THEN packet ELSE <<>>)

\* one call of _find_and_decode_packets on the stream of f, at time clock;
\* out collects the lines of all the calls
ScanStream(f) ==
    /\ scans < MaxScans
    /\ \E st \in {find_and_decode_bits(
                      [last_seen |-> last_seen, out |-> out, log |-> <<>>],
                      Stream(f), f.channel, clock)} :
          /\ last_seen' = st.last_seen
          /\ out' = st.out
          /\ scan_log' = st.log
    /\ bits' = Stream(f)
    /\ frame' = <<f>>
    /\ scans' = scans + 1
    /\ UNCHANGED <<hop_count, clock, chan, pc, scan_i, decoded, adv_log,
                   pending, cleanup_hops>>
    /\ UNCHANGED hopVars
    /\ UNCHANGED <<data_bits, wh_channel, whitened, restored>>
    /\ UNCHANGED adVars
    /\ UNCHANGED sweepVars

NextScan == \E f \in Frames : ScanStream(f)

(***************************************************************************)
(* ble_dewhiten applied twice to a bit sequence, for the round trip.       *)
(***************************************************************************)
MaxBits == 9

\* channel numbers: the three advertising channels and the data channel 0
WhChannels == {0, 37, 38, 39}

BitSeqs == UNION {[1..n -> {0, 1}] : n \in 0..MaxBits}

Whiten ==
    /\ whitened = <<>>
    /\ whitened' = <<ble_dewhiten(data_bits, wh_channel)>>
    /\ UNCHANGED <<data_bits, wh_channel, restored, bits, frame, scans, scan_log>>
    /\ UNCHANGED adVars
    /\ UNCHANGED bleVars
    /\ UNCHANGED sweepVars

Restore ==
    /\ whitened # <<>>
    /\ restored = <<>>
    /\ restored' = <<ble_dewhiten(whitened[1], wh_channel)>>
    /\ UNCHANGED <<data_bits, wh_channel, whitened, bits, frame, scans, scan_log>>
    /\ UNCHANGED adVars
    /\ UNCHANGED bleVars
    /\ UNCHANGED sweepVars

NextWhiten == Whiten \/ Restore

(***************************************************************************)
(* The advertising-data parser.  parse_ad_structures walks the bytes that  *)
(* follow the address as length / type / data structures; the emitter then *)
(* hands the manufacturer data of an Apple advertiser to                   *)
(* parse_apple_continuity.  One action per iteration of the loop.          *)
(***************************************************************************)
MaxAdLen == 4

\* the byte values the enumerated advertising data is made of: the AD types
\* 1, 2, 3 and 0xFF (also lengths), 0, and 0x4c
AdBytes == {0, 1, 2, 3, 76, 255}

\* advertising data built from whole structures, for the fields and the
\* Apple branch: a flags structure then Apple Find My; another vendor's
\* manufacturer data then Apple's; Apple's then another vendor's; Apple
\* Nearby Info; Apple Nearby Action then Tile; Tile then Apple Find My; TX
\* power, a UUID list and a name
AdPayloads ==
    { <<2, 1, 6, 5, 255, 76, 0, 18, 0>>,
      <<5, 255, 1, 0, 18, 0, 3, 255, 76, 0>>,
      <<3, 255, 76, 0, 5, 255, 1, 0, 18, 0>>,
      <<6, 255, 76, 0, 16, 1, 48>>,
      <<5, 255, 76, 0, 15, 1, 5, 255, 87, 1, 7, 0>>,
      <<5, 255, 87, 1, 7, 0, 5, 255, 76, 0, 18, 0>>,
      <<2, 10, 200, 3, 3, 15, 24, 4, 9, 65, 66, 67>> }

\* every byte sequence over AdBytes up to MaxAdLen bytes, and AdPayloads
AdInputs ==
    UNION {[1..n -> AdBytes] : n \in 0..MaxAdLen} \cup AdPayloads

\* parse_ad_structures has just been called on ad_data
InitAd ==
    /\ ad_data \in AdInputs
    /\ ad_i = 0
    /\ ad_fields = EmptyDict
    /\ ad_pc = "loop"
    /\ ad_reads = {}
    /\ mfg_from = <<>>
    /\ continuity = <<>>

\* no advertising data is being parsed
AdIdle ==
    /\ ad_data = <<>>
    /\ ad_i = 0
    /\ ad_fields = EmptyDict
    /\ ad_pc = "emitted"
    /\ ad_reads = {}
    /\ mfg_from = <<>>
    /\ continuity = <<>>

\* one test of "while i < len(payload)" and the iteration that follows it
AdStep ==
    /\ ad_pc = "loop"
    /\ IF ad_i >= Len(ad_data)
       THEN /\ ad_pc' = "parsed"
            /\ UNCHANGED <<ad_i, ad_fields, ad_reads, mfg_from>>
       ELSE IF ad_breaks(ad_data, ad_i)
       THEN /\ ad_pc' = "parsed"
            /\ ad_reads' = ad_reads \cup break_reads(ad_data, ad_i)
            /\ UNCHANGED <<ad_i, ad_fields, mfg_from>>
       ELSE LET length == ad_data[ad_i + 1]
                ad_type == ad_data[ad_i + 2]
                data == Slice(ad_data, ad_i + 2, ad_i + 1 + length)
            IN  /\ ad_fields' = ad_structure(ad_fields, ad_type, data)
                /\ ad_i' = ad_i + 1 + length
                /\ ad_reads' = ad_reads \cup (ad_i..(ad_i + length))
                /\ mfg_from' = IF ad_type = 255 /\ Len(data) >= 2
                               THEN <<ad_i>> ELSE mfg_from
                /\ ad_pc' = "loop"
    /\ UNCHANGED <<ad_data, continuity>>
    /\ UNCHANGED <<data_bits, wh_channel, whitened, restored, bits, frame,
                   scans, scan_log>>
    /\ UNCHANGED bleVars
    /\ UNCHANGED sweepVars

\* the Apple branch of _find_and_decode_packets on the parsed fields
AppleContinuity ==
    /\ ad_pc = "parsed"
    /\ ad_pc' = "emitted"
    /\ LET mfg_payload == apple_payload(ad_fields, ad_data)
       IN  IF mfg_payload # <<>>
           THEN /\ continuity' = mfg_payload
                /\ ad_fields' = DictUpdate(ad_fields,
                                           parse_apple_continuity(mfg_payload[1]))
           ELSE /\ continuity' = <<>>
                /\ UNCHANGED ad_fields
    /\ UNCHANGED <<ad_data, ad_i, ad_reads, mfg_from>>
    /\ UNCHANGED <<data_bits, wh_channel, whitened, restored, bits, frame,
                   scans, scan_log>>
    /\ UNCHANGED bleVars
    /\ UNCHANGED sweepVars

NextAd == AdStep \/ AppleContinuity

(***************************************************************************)
(* Specifications.  The two processors are separate processes: each        *)
(* specification runs one of them and leaves the other as constructed.     *)
(***************************************************************************)

\* the sweep processor as constructed, under the default threshold
SweepIdle == InitSweep /\ anomaly_sigma = 3

\* the BLE process starts: its processor as constructed, the sweep one idle
\* the bit-level harnesses before any call
FnIdle ==
    /\ data_bits = <<>>
    /\ wh_channel = 37
    /\ whitened = <<>>
    /\ restored = <<>>
    /\ bits = <<>>
    /\ frame = <<>>
    /\ scans = 0
    /\ scan_log = <<>>
    /\ AdIdle

InitBleProcess == InitBle /\ SweepIdle /\ FnIdle

\* the sweep process starts: its processor as constructed, the BLE one idle
InitSweepProcess == InitBle /\ InitSweep /\ FnIdle

\* run(): the channel scheduler of the BLE processor
SpecRun == InitBleProcess /\ [][NextRun]_vars

\* run() at the grain of one dwell, with the noise statistics
SpecHop == InitBleProcess /\ [][NextHop]_vars

\* the deduplicator under arbitrary decodes and compaction runs
SpecScan == InitBleProcess /\ [][NextScan]_vars

InitWhiten ==
    /\ InitBle
    /\ SweepIdle
    /\ data_bits \in BitSeqs
    /\ wh_channel \in WhChannels
    /\ whitened = <<>>
    /\ restored = <<>>
    /\ bits = <<>>
    /\ frame = <<>>
    /\ scans = 0
    /\ scan_log = <<>>
    /\ AdIdle

SpecWhiten == InitWhiten /\ [][NextWhiten]_vars

SpecDedup == InitBleProcess /\ [][NextDedup]_vars

\* the sweep processor reading parsed lines
SpecSweep == InitSweepProcess /\ [][NextSweep]_vars

SpecParse == InitSweepProcess /\ [][NextParse]_vars

\* the advertising-data parser on one buffer; the loop is a running program,
\* so its next iteration is always taken
InitAdProcess ==
    /\ InitBle
    /\ SweepIdle
    /\ data_bits = <<>>
    /\ wh_channel = 37
    /\ whitened = <<>>
    /\ restored = <<>>
    /\ bits = <<>>
    /\ frame = <<>>
    /\ scans = 0
    /\ scan_log = <<>>
    /\ InitAd

SpecAd == InitAdProcess /\ [][NextAd]_vars /\ WF_vars(NextAd)

SpecStreak == InitSweepProcess /\ [][NextStreak]_vars

(***************************************************************************)
(* Claims about the BLE processor                                          *)
(***************************************************************************)

\* C1: over any sequence of candidate decodes and compaction runs, no two
\* ble-adv records carrying the same signature are emitted less than
\* DEDUP_SECONDS apart.
C1_NoDuplicateWithinWindow ==
    \A s \in Signatures :
        \A i, j \in 1..Len(adv_log[s]) :
            i < j => adv_log[s][j].at - adv_log[s][i].at >= DEDUP_SECONDS

\* C1 witness: a signature has two records exactly DEDUP_SECONDS apart, and
\* a copy in between was suppressed.
C1_Witness ==
    \E s \in Signatures :
        /\ Len(adv_log[s]) >= 2
        /\ adv_log[s][2].at - adv_log[s][1].at = DEDUP_SECONDS
        /\ adv_log[s][2].skipped > 0

\* the time of the last ble-adv record of signature s, as a sequence of
\* length 0 or 1
LastEmitted(s) ==
    IF Len(adv_log[s]) = 0 THEN <<>> ELSE <<adv_log[s][Len(adv_log[s])].at>>

\* C2: a decoded candidate whose signature was never emitted, or was last
\* emitted at least DEDUP_SECONDS ago, is emitted and its table entry is set
\* to the current time; a candidate decoded sooner is suppressed and leaves
\* the table (and so the window of its signature) as it was.
C2_EmitWhenWindowElapsed ==
    [][\A c \in Candidates :
          (decoded' # decoded /\ decoded' # <<>> /\ decoded'[1].cand = c) =>
              LET s == AdvSig(c)
                  fresh == \/ LastEmitted(s) = <<>>
                           \/ clock - LastEmitted(s)[1] >= DEDUP_SECONDS
              IN  IF fresh
                  THEN /\ Len(adv_log'[s]) = Len(adv_log[s]) + 1
                       /\ LastEmitted(s)' = <<clock>>
                       /\ s \in DOMAIN last_seen'
                       /\ last_seen'[s] = clock
                  ELSE /\ adv_log' = adv_log
                       /\ last_seen' = last_seen]_vars

\* C2 witness: a second record of a signature was emitted DEDUP_SECONDS + 1
\* after the first, with suppressed copies of it seen in between.
C2_Witness ==
    \E s \in Signatures :
        /\ Len(adv_log[s]) >= 2
        /\ adv_log[s][2].at - adv_log[s][1].at = DEDUP_SECONDS + 1
        /\ adv_log[s][2].skipped >= 2

\* C3: compaction runs every 30 channel hops, for every pattern of
\* successful and absent captures: cleanup_dedup runs only when the hop
\* counter is a multiple of 30, and whenever the scheduler is about to
\* capture, every multiple of 30 the hop counter has reached has had its run.
C3_CompactionEvery30Hops ==
    /\ \A h \in cleanup_hops : h % CLEANUP_HOPS = 0
    /\ pc = "capture" =>
          \A k \in 1..(hop_count \div CLEANUP_HOPS) :
              k * CLEANUP_HOPS \in cleanup_hops

\* C10: the records of a successful dwell are the ble-energy record first,
\* then ble-adv records in strictly ascending access-address match index,
\* all of the same dwell.
C10_DwellOrder ==
    Len(out) > 0 =>
        /\ out[1].protocol = "ble-energy"
        /\ \A k \in 2..Len(out) :
              /\ out[k].protocol = "ble-adv"
              /\ out[k].dwell = out[1].dwell
              /\ out[k].channel = out[1].channel
              /\ k > 2 => out[k - 1].index < out[k].index

\* C10 witness: a finished dwell that wrote its energy record and two
\* advertising records.
C10_Witness ==
    /\ pc # "scan"
    /\ Len(out) = 3
    /\ out[2].index = 0
    /\ out[3].index = 1

(***************************************************************************)
(* Claims about the sweep processor                                        *)
(***************************************************************************)

\* the positions in the output of the latest line of the spectrum-anomaly
\* records of bin b
AnomaliesFor(b) ==
    {k \in 1..Len(sw_out) : /\ sw_out[k].protocol = "spectrum-anomaly"
                            /\ sw_out[k].frequencyHz = b}

\* the bins read by the latest line
ReadBins == IF last_line = <<>> THEN {} ELSE LineBins(last_line[1])

\* the reading (in 1/SCALE dB) the latest line holds for bin b
LastReading(b) ==
    LET l == last_line[1]
    IN  SCALE * l.db_values[CHOOSE i \in 1..Len(l.db_values) :
                                center_freq(l.hz_low, i - 1) = b]

\* C4: in TRACKING a spectrum-anomaly record is written for a bin on exactly
\* the MIN_STREAK-th consecutive reading of the bin whose sigma exceeds the
\* threshold: the latest line wrote one record for the bin if it read the
\* bin and that reading was the MIN_STREAK-th of its run, and none otherwise
\* (none on the earlier readings of the run, none on the later ones).
C4_EmitOnMinStreak ==
    \A b \in BinKeys :
        Cardinality(AnomaliesFor(b)) =
            IF b \in ReadBins /\ run[b] = MIN_STREAK THEN 1 ELSE 0

\* a run went past MIN_STREAK: the record was written one reading earlier
\* and the latest reading of the bin, still over the threshold, wrote none
C4_Witness ==
    \E b \in ReadBins : /\ run[b] = MIN_STREAK + 1
                        /\ anomaly_count >= 1
                        /\ AnomaliesFor(b) = {}

\* C5 as stated: the deviationSigma field (in tenths) of every
\* spectrum-anomaly record is strictly greater than the threshold.
C5_FieldAboveThreshold ==
    \A k \in 1..Len(sw_out) :
        sw_out[k].protocol = "spectrum-anomaly"
            => sw_out[k].deviationSigma > anomaly_sigma * 10

\* C5 amended: the sigma of the reading that writes a spectrum-anomaly
\* record is strictly greater than the threshold, and the deviationSigma
\* field is that sigma rounded to one decimal: it is at least the threshold
\* and may equal it.
C5_SigmaAboveThresholdFieldRounded ==
    \A k \in 1..Len(sw_out) :
        sw_out[k].protocol = "spectrum-anomaly" =>
            LET b == sw_out[k].frequencyHz
                sigma == deviation_sigma(bins[b], LastReading(b))
                field == sw_out[k].deviationSigma * (SCALE \div 10)
            IN  /\ b \in ReadBins
                /\ sigma > anomaly_sigma * SCALE
                /\ 2 * (field - sigma) <= SCALE \div 10
                /\ 2 * (sigma - field) <= SCALE \div 10
                /\ sw_out[k].deviationSigma >= anomaly_sigma * 10

\* a record of a promoted bin whose deviationSigma field equals the threshold
C5_Witness ==
    \E k \in 1..Len(sw_out) :
        /\ sw_out[k].protocol = "spectrum-anomaly"
        /\ sw_out[k].deviationSigma = anomaly_sigma * 10
        /\ ~bins[sw_out[k].frequencyHz].learning

\* C6: a bin that was not promoted when learning ended (fewer than
\* MIN_COUNT learning samples, or first seen after the switch) never has a
\* spectrum-anomaly record written for it.
C6_UnpromotedBinsSilent ==
    \A b \in DOMAIN bins :
        (~learning /\ bins[b].learning) => AnomaliesFor(b) = {}

\* C7 as stated: once finalize_learning has run on a bin its learning flag
\* is false and its ema_var is at least 0.1 in every later state.
C7_FloorForever ==
    \A b \in DOMAIN bins : ~bins[b].learning => bins[b].ema_var >= VAR_FLOOR

\* C7 amended: ema_var is at least 0.1 when finalize_learning returns (the
\* EMA update of the same line, if the line reads the bin, comes after it);
\* from then on the learning flag stays false, ema_var changes only when
\* the bin is read, and one EMA update lowers it by at most the factor
\* 1 - EMA_ALPHA, so it can fall below 0.1.
C7_FloorAtFinalizeThenDecay ==
    [][\A b \in DOMAIN bins' :
          LET was == b \in DOMAIN bins /\ ~bins[b].learning
              read == lines' = lines + 1 /\ b \in LineBins(last_line'[1])
              decayed(x) == x - RoundDiv(x, EMA_ALPHA_INV)
          IN  /\ was => /\ ~bins'[b].learning
                        /\ bins'[b].ema_var >= decayed(bins[b].ema_var)
                        /\ ~read => bins'[b].ema_var = bins[b].ema_var
              /\ (~was /\ ~bins'[b].learning) =>
                    bins'[b].ema_var >= IF read THEN decayed(VAR_FLOOR)
                                                ELSE VAR_FLOOR]_vars

\* a promoted bin whose ema_var has fallen below the floor
C7_Witness ==
    \E b \in DOMAIN bins : ~bins[b].learning /\ bins[b].ema_var < VAR_FLOOR

\* scenario S5: the statistics of a bin after five learning readings of
\* 10 dB, after promotion, and after one and two TRACKING readings of 20 dB
RECURSIVE Learned(_, _)
Learned(n, db) ==
    IF n = 0 THEN NewBinStats ELSE update(Learned(n - 1, db), db * SCALE)

S5Stats0 == finalize_learning(Learned(5, 10))
S5Stats1 == update(S5Stats0, 20 * SCALE)
S5Stats2 == update(S5Stats1, 20 * SCALE)

\* the first 20 dB reading of S5 has just been processed for bin b
S5First(b) == b \in ReadBins /\ b \in DOMAIN bins /\ bins[b] = S5Stats1

\* the second 20 dB reading of S5 has just been processed for bin b
S5Second(b) == b \in ReadBins /\ b \in DOMAIN bins /\ bins[b] = S5Stats2

\* C8 as stated: in S5 the first 20 dB reading writes nothing, the second
\* writes exactly one spectrum-anomaly record, a power-spike whose
\* deviationSigma is about (20 - 10) / sqrt(0.1) = 31.6.
C8_S5SigmaAtFinalization ==
    \A b \in BinKeys :
        /\ S5First(b) => AnomaliesFor(b) = {}
        /\ S5Second(b) =>
              /\ Cardinality(AnomaliesFor(b)) = 1
              /\ \A k \in AnomaliesFor(b) :
                    /\ sw_out[k].anomalyType = "power-spike"
                    /\ sw_out[k].deviationSigma \in 315..317

\* C8 amended: in S5 the first 20 dB reading writes nothing and starts the
\* streak, the second writes exactly one spectrum-anomaly record, a
\* power-spike whose deviationSigma is 6.8: (20 - 10.199) / sqrt(2.048409),
\* the deviation from the EMA baseline after it took in both 20 dB readings.
C8_S5SigmaAfterUpdate ==
    \A b \in BinKeys :
        /\ S5First(b) => /\ AnomaliesFor(b) = {}
                         /\ DictGet(streaks, b, 0) = 1
        /\ S5Second(b) =>
              /\ Cardinality(AnomaliesFor(b)) = 1
              /\ \A k \in AnomaliesFor(b) :
                    /\ sw_out[k].anomalyType = "power-spike"
                    /\ sw_out[k].deviationSigma = 68
                    /\ sw_out[k].baselinePower = 102

\* S5 has run to its end on some bin
C8_Witness == \E b \in BinKeys : S5Second(b) /\ AnomaliesFor(b) # {}

\* C9: the processor starts in LEARNING and leaves it exactly once, while it handles the
\* first parsed line that arrives at least BASELINE_SECONDS after the first
\* parsed line and before that line's bins are processed; the switch
\* finalizes exactly the bins with at least MIN_COUNT samples; LEARNING is
\* never entered again; no record is written before the switch.
C9_SwitchOnce ==
    /\ learning = TRUE
    /\ [][LET line == lines' = lines + 1
              due == /\ start_time # <<>>
                     /\ sw_clock - start_time[1] >= BASELINE_SECONDS
              switch == learning /\ ~learning'
          IN  /\ learning' => learning
              /\ switch => line /\ due
              /\ (line /\ learning /\ due) => ~learning'
              /\ switch =>
                    /\ \A b \in DOMAIN bins' :
                          ~bins'[b].learning <=>
                              (b \in DOMAIN bins /\ bins[b].count >= MIN_COUNT)
                    /\ \A b \in LineBins(last_line'[1]) :
                          bins'[b] =
                              IF b \in DOMAIN bins /\ bins[b].count >= MIN_COUNT
                              THEN update(finalize_learning(bins[b]),
                                          LastReading(b)')
                              ELSE update(DictGet(bins, b, NewBinStats),
                                          LastReading(b)')
              /\ learning' => sw_out' = <<>>]_vars

\* TRACKING has been entered with one bin promoted and another one, short
\* of samples, not promoted, and the latest line has written a record
C9_Witness ==
    /\ ~learning
    /\ sw_out # <<>>
    /\ \E b \in DOMAIN bins : ~bins[b].learning
    /\ \E b \in DOMAIN bins : bins[b].learning /\ bins[b].count < MIN_COUNT

(***************************************************************************)
(* Claims about the run loop of the BLE processor, one dwell per step      *)
(***************************************************************************)

\* the channel after ch in the cycle 37, 38, 39, 37, ...
NextInCycle(ch) == IF ch = 37 THEN 38 ELSE IF ch = 38 THEN 39 ELSE 37

\* C11: capture_channel() is called on the channels 37, 38, 39, 37, ... in
\* this cyclic order, whatever the calls return; a call that returns None
\* writes no record, leaves hop_count, the noise statistics and the dedup
\* table as they were and is followed by the next channel of the cycle; a
\* call that returns a buffer adds exactly one to hop_count.
C11_RoundRobin ==
    [][attempts' = attempts + 1 =>
          /\ tried' = <<IF tried = <<>> THEN 37 ELSE NextInCycle(tried[1])>>
          /\ iq' = <<>> => /\ out' = <<>>
                           /\ hop_count' = hop_count
                           /\ noise_stats' = noise_stats
                           /\ last_seen' = last_seen
          /\ iq' # <<>> => hop_count' = hop_count + 1]_vars

\* the fourth call is on channel 37 again; it returned None as two of the
\* calls before it did, and one call returned a buffer
C11_Witness ==
    /\ attempts = 4
    /\ tried = <<37>>
    /\ iq = <<>>
    /\ hop_count = 1
    /\ DOMAIN noise_stats # {}

\* the positions of the ble-energy records among the records of the dwell
EnergyRecords == {k \in 1..Len(out) : out[k].protocol = "ble-energy"}

\* the buffer of the last capture is a demodulation miss: shorter than
\* MIN_IQ_SAMPLES samples, fewer than MIN_SYMBOLS symbols, or no candidate
\* came out of the scan
DemodulationMiss ==
    \/ iq[1] < MIN_IQ_SAMPLES
    \/ (iq[1] - 1) \div SAMPLES_PER_SYMBOL < MIN_SYMBOLS
    \/ decoded = <<>>

\* C12: every capture that returns a buffer writes exactly one ble-energy
\* record, whether or not the channel had one within the dedup window; a
\* dwell that is a demodulation miss writes that record and no ble-adv
\* record; a capture that returns None writes nothing.
C12_OneEnergyPerCapture ==
    IF iq = <<>> THEN out = <<>>
    ELSE /\ Cardinality(EnergyRecords) = 1
         /\ out[1].protocol = "ble-energy"
         /\ out[1].channel = tried[1]
         /\ DemodulationMiss => Len(out) = 1

\* channel 37 is captured a second time within the dedup window of its
\* first ble-energy record, with a buffer too short to demodulate
C12_Witness ==
    /\ attempts = 4
    /\ hop_count = 4
    /\ clock < DEDUP_SECONDS
    /\ iq # <<>>
    /\ iq[1] < MIN_IQ_SAMPLES
    /\ Len(out) = 1

(***************************************************************************)
(* Further claims about the sweep processor                                *)
(***************************************************************************)

\* the positions of the spectrum-baseline records in the output of the
\* latest line
BaselineRecords ==
    {k \in 1..Len(sw_out) : sw_out[k].protocol = "spectrum-baseline"}

\* the latest line started a sweep cycle (hz_low < 10 MHz), the processor
\* is in TRACKING and the number of sweep cycles is a multiple of
\* EMIT_INTERVAL
SummaryDue ==
    /\ last_line # <<>>
    /\ last_line[1].hz_low < SWEEP_START_KHZ
    /\ ~learning
    /\ sweep_count % EMIT_INTERVAL = 0

\* the bands that hold a bin with at least MIN_COUNT samples
ValidBands ==
    {freq_to_band_name(k) : k \in {j \in DOMAIN bins : bins[j].count >= MIN_COUNT}}

\* C13: spectrum-baseline records are written by exactly the lines that
\* start a sweep cycle in TRACKING whose number (counted from the first
\* line on) is a multiple of EMIT_INTERVAL; such a line writes one record
\* for each band holding a bin with count >= MIN_COUNT, counting the bins
\* of the band, and none for another band.
C13_BaselineEveryInterval ==
    IF SummaryDue
    THEN /\ \A band \in ValidBands :
               Cardinality({k \in BaselineRecords : sw_out[k].band = band}) = 1
         /\ \A k \in BaselineRecords :
               /\ sw_out[k].band \in ValidBands
               /\ sw_out[k].binCount =
                     Cardinality({j \in DOMAIN bins :
                                     /\ bins[j].count >= MIN_COUNT
                                     /\ freq_to_band_name(j) = sw_out[k].band})
    ELSE BaselineRecords = {}

\* a summary of one record that merges the two bins of a band
C13_Witness ==
    /\ SummaryDue
    /\ Cardinality(BaselineRecords) = 1
    /\ \E k \in BaselineRecords : sw_out[k].binCount = 2

\* the whitening sequence of a channel: what ble_dewhiten XORs onto n bits,
\* read off its result for the all-zero sequence
WhiteningSequence(channel, n) == ble_dewhiten([i \in 1..n |-> 0], channel)

\* C14: dewhitening is an involution: for every bit sequence B and every
\* channel c, ble_dewhiten(ble_dewhiten(B, c), c) = B, and what the first
\* application XORs onto bit i of B is the whitening sequence of c at i,
\* whatever the data bits are.
C14_DewhitenInvolution ==
    /\ restored # <<>> => restored[1] = data_bits
    /\ whitened # <<>> =>
          /\ Len(whitened[1]) = Len(data_bits)
          /\ \A i \in 1..Len(data_bits) :
                (whitened[1][i] + data_bits[i]) % 2
                    = WhiteningSequence(wh_channel, Len(data_bits))[i]

\* C14 witness: a sequence longer than the 7-bit register was whitened on
\* channel 37, which changed it, and whitened again
C14_Witness ==
    /\ restored # <<>>
    /\ wh_channel = 37
    /\ Len(data_bits) > 7
    /\ whitened[1] # data_bits
    /\ \E i \in 1..Len(data_bits) : data_bits[i] = 1

\* the entries of scan_log
LogEntries == {scan_log[k] : k \in 1..Len(scan_log)}

\* the indexes the last call scanned: range(n)
ScannedIndexes == 0..(Len(bits) - AA_LEN - HEADER_SPACE - 1)

\* the candidate the last stream was built to carry: the entry at the index
\* where its access address starts, when the correlation let it through
Carried == {e \in LogEntries : e.index = frame[1].offset}

\* the bits left after the access address that starts at index i
BitsAfter(i) == Len(bits) - (i + 32)

\* the signature of the packet the last stream carries
CarriedSig ==
    compute_signature("ble-adv",
                      <<hash_mac(MacBytes(frame[1].mac)),
                        ADV_TYPES[frame[1].pdu_type + 1]>>)

\* the ble-adv lines the last call wrote for index i
LinesAt(i) ==
    {k \in 1..Len(out) : /\ out[k].index = i
                         /\ \E e \in LogEntries :
                               e.index = i /\ e.verdict = "emitted"}

\* C15: a candidate is rejected when its payload_length (byte 1 & 0x3F) is
\* below 6 or above 37 and accepted from 6 to 37 inclusive; an accepted
\* candidate is then discarded only when fewer than
\* 16 + 8 * payload_length + 24 bits remain after the access address, or by
\* deduplication.  The entry of the carried packet reads the length the
\* transmitter wrote.
C15_PayloadLengthRange ==
    frame # <<>> =>
        /\ \A e \in LogEntries :
              /\ e.verdict \in {"length", "short", "dedup", "emitted"}
              /\ e.verdict = "length"
                    <=> (e.payload_length < 6 \/ e.payload_length > 37)
              /\ e.payload_length \in 6..37 =>
                    (e.verdict = "short"
                        <=> BitsAfter(e.index) < 16 + 8 * e.payload_length + 24)
        /\ \A e \in Carried :
              /\ e.payload_length = frame[1].len_byte % 64
              /\ e.verdict = "dedup" =>
                    /\ CarriedSig \in DOMAIN last_seen
                    /\ clock - last_seen[CarriedSig] < DEDUP_SECONDS

\* C15 witness: a packet of payload length 37, the largest accepted, was
\* decoded and written
C15_Witness ==
    /\ frame # <<>>
    /\ frame[1].len_byte = 37
    /\ frame[1].cut = 0
    /\ \E e \in Carried : e.verdict = "emitted" /\ e.payload_length = 37
    /\ LinesAt(frame[1].offset) # {}

\* 0x8E89BED6 written out bit by bit, most significant bit first
AccessAddressBits ==
    <<1, 0, 0, 0, 1, 1, 1, 0,   1, 0, 0, 0, 1, 0, 0, 1,
      1, 0, 1, 1, 1, 1, 1, 0,   1, 1, 0, 1, 0, 1, 1, 0>>

\* in how many bits the window at index i differs from the access address
Distance(i) ==
    Cardinality({k \in 1..32 : bits[i + k] # AccessAddressBits[k]})

\* C16: at every scanned index the window is accepted when it differs from
\* 0x8E89BED6 in at most one bit and rejected when it differs in two or
\* more; every accepted index yields its own candidate, in index order,
\* also when its window overlaps an earlier accepted one.  The window of
\* the carried packet differs in exactly the bits the channel flipped.
C16_CorrelationTolerance ==
    frame # <<>> =>
        /\ \A i \in ScannedIndexes :
              (\E e \in LogEntries : e.index = i) <=> Distance(i) <= 1
        /\ \A e \in LogEntries : e.index \in ScannedIndexes
        /\ \A j, k \in 1..Len(scan_log) :
              j < k => scan_log[j].index < scan_log[k].index
        /\ Distance(frame[1].offset) = Cardinality(frame[1].flips)

\* C16 witness: two overlapping windows were both accepted, the first with
\* exactly one mismatched bit, and each left its own candidate
C16_Witness ==
    /\ Len(scan_log) = 2
    /\ scan_log[1].index = 0
    /\ scan_log[2].index = 31
    /\ Distance(0) = 1
    /\ Distance(31) = 0
    /\ scan_log[2].verdict = "emitted"

\* whether the three bytes that follow the payload of the candidate at index
\* i of stream b, read little-endian, are the CRC-24 of its header and
\* payload bytes
CrcHolds(b, i, channel) ==
    LET bytes == bits_to_bytes(ble_dewhiten(SubSeq(b, i + 33, Len(b)), channel))
        len == bytes[2] % 64
    IN  crc24_ble(SubSeq(bytes, 1, 2 + len))
            = bytes[len + 3] + 256 * bytes[len + 4] + 65536 * bytes[len + 5]

\* C17: a candidate is never discarded because of a CRC mismatch.  When a
\* call scans a stream whose packet passes the correlation and the length
\* checks, the packet is written unless its signature is inside the dedup
\* window, whether its CRC arrived intact or not, and writing it claims the
\* window; crcValid of every line written is true exactly when the CRC-24
\* over header and payload equals the received three bytes read
\* little-endian.
C17_CrcNeverDiscards ==
    [][scans' = scans + 1 =>
          LET f == frame'[1]
              sig == CarriedSig'
              passes == /\ Cardinality(f.flips) <= 1
                        /\ (f.len_byte % 64) \in 6..37
                        /\ f.cut = 0
              deduped == /\ sig \in DOMAIN last_seen
                         /\ clock - last_seen[sig] < DEDUP_SECONDS
              written == (Len(out) + 1)..Len(out')
          IN  /\ \A k \in written :
                    out'[k].crcValid = CrcHolds(bits', out'[k].index, f.channel)
              /\ passes =>
                    IF deduped
                    THEN /\ \A e \in Carried' : e.verdict = "dedup"
                         /\ \A k \in written : out'[k].index # f.offset
                         /\ last_seen'[sig] = last_seen[sig]
                    ELSE /\ \E k \in written :
                               /\ out'[k].index = f.offset
                               /\ out'[k].signature = sig
                               /\ out'[k].crcValid = (~f.bad_crc)
                         /\ last_seen'[sig] = clock]_vars

\* C17 witness: the only line written for a signature has crcValid false,
\* and a later packet of that signature with an intact CRC was suppressed
\* by the window the line claimed
C17_Witness ==
    /\ scans = 2
    /\ frame[1].bad_crc = FALSE
    /\ \E e \in Carried : e.verdict = "dedup"
    /\ \E k \in 1..Len(out) :
          out[k].signature = CarriedSig /\ out[k].crcValid = FALSE
    /\ \A k \in 1..Len(out) :
          out[k].signature = CarriedSig => out[k].crcValid = FALSE
    /\ last_seen[CarriedSig] = clock

\* the step leaves the processor as it was and writes nothing
DroppedSilently ==
    /\ sw_out' = <<>>
    /\ UNCHANGED <<bins, streaks, emitted, start_time, learning, sweep_count,
                   anomaly_count>>

\* the line is empty, a comment or shorter than 7 fields
Unreadable(raw) ==
    raw = <<Empty>> \/ raw[1].kind = "hash" \/ Len(raw) < 7

\* C18 as stated: a line that is empty, starts with "#", has fewer than 7
\* fields or has a non-numeric value in low Hz, high Hz, bin width, the
\* sample count or a dB field is dropped silently.
C18_NonNumericAnywhereDropped ==
    [][\A raw \in RawLines :
          /\ \/ Unreadable(raw)
             \/ \E k \in 3..Len(raw) : raw[k].kind = "text"
          /\ ReadLine(raw)
          => DroppedSilently]_vars

\* C18 amended: a line that is empty, starts with "#", has fewer than 7
\* fields or has something float() rejects in low Hz, high Hz, bin width or
\* a non-empty dB field is dropped silently: nothing is written and bins,
\* streaks, emitted flags, start time, learning flag and sweep count stay as
\* they were.  The sample count is not converted: a line whose sample count
\* is not a number is processed exactly as with a numeric one.
C18_MalformedDropped ==
    [][/\ \A raw \in RawLines :
             /\ \/ Unreadable(raw)
                \/ \E k \in 3..5 : raw[k].kind # "num"
                \/ \E k \in 7..Len(raw) : raw[k].kind \in {"text", "hash"}
             /\ ReadLine(raw)
             => DroppedSilently
       /\ \A raw \in RawLines :
             Len(raw) >= 7 =>
                (ReadLine([raw EXCEPT ![6] = Text])
                    <=> ReadLine([raw EXCEPT ![6] = Num(20)]))]_vars

\* C18 witness: in TRACKING, with a streak running, the last line read was
\* dropped
C18_Witness ==
    /\ lines > 1
    /\ last_line = <<>>
    /\ ~learning
    /\ DOMAIN streaks # {}
    /\ sw_out = <<>>

\* C19: the anomalyType of every spectrum-anomaly record is power-spike
\* exactly when the dB value of the reading that triggered the record
\* exceeds the baseline mean of its bin at the time of the emit (the mean
\* after the reading was folded in), and power-drop otherwise.
C19_TypeFromTriggeringReading ==
    \A b \in BinKeys : \A k \in AnomaliesFor(b) :
        sw_out[k].anomalyType =
            IF LastReading(b) > current_mean(bins[b]) THEN "power-spike"
                                                      ELSE "power-drop"

\* C19 witness: a record was written for a reading above the tracked mean
\* of its bin, and says power-spike
C19_Witness ==
    \E b \in ReadBins : \E k \in AnomaliesFor(b) :
        /\ ~bins[b].learning
        /\ LastReading(b) > bins[b].ema_mean
        /\ sw_out[k].measuredPower = Round1(LastReading(b))
        /\ sw_out[k].anomalyType = "power-spike"

\* the sigma process_line computed for the latest reading of bin b: the
\* deviation from the statistics the reading was folded into
LastSigma(b) == deviation_sigma(bins[b], LastReading(b))

\* C20: the streak of a bin is reset only when its sigma returns within the
\* threshold, not when the deviation changes sign: in TRACKING, a reading
\* of a promoted bin with a running streak that deviates by more than the
\* threshold in either direction adds one to the streak.
C20_PolarityFlipKeepsStreak ==
    [][\A b \in BinKeys :
          (/\ lines' = lines + 1
           /\ b \in ReadBins'
           /\ ~learning'
           /\ ~bins'[b].learning
           /\ b \in DOMAIN streaks
           /\ \/ LastSigma(b)' > anomaly_sigma * SCALE
              \/ LastSigma(b)' < -(anomaly_sigma * SCALE))
          => /\ b \in DOMAIN streaks'
             /\ streaks'[b] = streaks[b] + 1]_vars

\* C21: when a TRACKING reading of a bin is within the threshold, the
\* streak counter and the already-emitted flag of the bin are both cleared
\* and the streak and flag of a bin the line does not read stay as they
\* were; and whatever was emitted before, the MIN_STREAK-th consecutive
\* over-threshold reading of a bin writes a spectrum-anomaly record for it.
C21_ResetClearsBoth ==
    [][lines' = lines + 1 /\ ~learning' =>
          /\ \A b \in ReadBins' :
                run'[b] = MIN_STREAK => AnomaliesFor(b)' # {}
          /\ \A b \in ReadBins' :
                \A stats \in {bins'[b]} : \A db \in {LastReading(b)'} :
                   deviation_sigma(stats, db) <= anomaly_sigma * SCALE
                       => b \notin DOMAIN streaks' /\ b \notin DOMAIN emitted'
          /\ \A o \in BinKeys \ ReadBins' :
                /\ (o \in DOMAIN streaks) = (o \in DOMAIN streaks')
                /\ o \in DOMAIN streaks => streaks'[o] = streaks[o]
                /\ (o \in DOMAIN emitted) = (o \in DOMAIN emitted')
                /\ o \in DOMAIN emitted => emitted'[o] = emitted[o]]_vars

\* C21 witness: the second record for bin 9500 has just been written, after
\* a reading within the threshold cleared its streak and flag on a line
\* that did not read bin 10500, whose streak ran on and wrote one record only
C21_Witness ==
    /\ anomaly_count = 3
    /\ AnomaliesFor(9500) # {}
    /\ AnomaliesFor(10500) = {}
    /\ 9500 \in DOMAIN streaks
    /\ streaks[9500] = MIN_STREAK
    /\ 10500 \in DOMAIN streaks
    /\ streaks[10500] = 2 * MIN_STREAK
    /\ emitted[9500]
    /\ emitted[10500]

\* the starting indexes of the last stream whose window matches the access
\* address in all bits but one at most
Matching == {i \in 0..(Len(bits) - AA_LEN) : Distance(i) <= MAX_MISMATCHES}

\* the starting indexes the last call accepted
Accepted == {e.index : e \in LogEntries}

\* C22 as stated: the scan tests every starting index i with
\* i + 32 + 40 <= len(bits), and no index that leaves fewer than 40 symbols
\* after the access address.
C22_ScansAtLeast40 ==
    scans > 0 =>
        /\ \A i \in Matching : i + AA_LEN + HEADER_SPACE <= Len(bits) => i \in Accepted
        /\ \A i \in Accepted : BitsAfter(i) >= HEADER_SPACE

\* C22 (amended): the scan tests every starting index i that leaves more
\* than 40 symbols after the 32-bit access address, i.e. every i with
\* i + 32 + 40 < len(bits), and no index that leaves 40 symbols or fewer.
C22_ScansMoreThan40 ==
    scans > 0 =>
        /\ \A i \in Matching : i + AA_LEN + HEADER_SPACE < Len(bits) => i \in Accepted
        /\ \A i \in Accepted : BitsAfter(i) > HEADER_SPACE

\* C22 witness: of two streams, the one whose access address is followed by
\* 41 symbols had the address tested, and the one whose address is followed
\* by exactly 40 symbols has just been scanned without testing it
C22_Witness ==
    /\ scans = 2
    /\ Len(out) = 0
    /\ frame[1].cut = 48
    /\ BitsAfter(frame[1].offset) = HEADER_SPACE
    /\ frame[1].offset \in Matching
    /\ frame[1].offset \notin Accepted
    /\ Len(bits) > AA_LEN + HEADER_SPACE

\* whether the structure at index i of the advertising data has a length
\* byte of 0 or declares more bytes than the buffer holds after it
Malformed(i) ==
    \/ ad_data[i + 1] = 0
    \/ i + 1 + ad_data[i + 1] > Len(ad_data)

\* C23: the advertising-data parser terminates on every byte sequence: the
\* loop is left eventually; an iteration that does not stop moves the index
\* forward, past the structure, and keeps the fields it had; the loop stops
\* exactly at the end of the buffer or at the first structure whose length
\* byte is 0 or whose declared length overruns the buffer, with the fields
\* parsed so far; and no index read lies outside the buffer.
C23_AdParserTerminates ==
    /\ <>(ad_pc # "loop")
    /\ [][ad_pc = "loop" =>
             /\ ad_pc' = "parsed"
                    <=> (ad_i >= Len(ad_data) \/ Malformed(ad_i))
             /\ ad_pc' = "parsed" => ad_fields' = ad_fields /\ ad_i' = ad_i
             /\ ad_pc' = "loop" =>
                    /\ ad_i' > ad_i
                    /\ ad_i' = ad_i + 1 + ad_data[ad_i + 1]
                    /\ ad_i' <= Len(ad_data)
                    /\ DOMAIN ad_fields \subseteq DOMAIN ad_fields'
             /\ ad_reads' \subseteq 0..(Len(ad_data) - 1)]_vars

\* C23 witness: the parser stopped at a structure that overruns the buffer,
\* after a structure whose flags it keeps
C23_Witness ==
    /\ ad_pc = "parsed"
    /\ 0 < ad_i
    /\ ad_i < Len(ad_data)
    /\ ad_data[ad_i + 1] > 0
    /\ Malformed(ad_i)
    /\ "flags" \in DOMAIN ad_fields
    /\ ad_reads = 0..(ad_i - 1)

\* the bytes that follow the company id inside the structure that produced
\* the reported manufacturerId
MfgBytes ==
    Slice(ad_data, mfg_from[1] + 4, mfg_from[1] + 1 + ad_data[mfg_from[1] + 1])

\* C24: whenever the reported manufacturerId is 004c, the Apple Continuity
\* sub-parser is applied to the bytes that follow the company id inside the
\* structure that produced that manufacturerId (when there are any), also
\* when the advertising data holds several manufacturer-specific structures.
C24_ContinuityOfSameStructure ==
    (/\ ad_pc = "emitted"
     /\ "manufacturerId" \in DOMAIN ad_fields
     /\ ad_fields["manufacturerId"] = APPLE_ID)
        => continuity = IF MfgBytes # <<>> THEN <<MfgBytes>> ELSE <<>>

\* the dedup check on the table as it would be had cleanup_dedup never run:
\* that table holds every signature emitted so far with the time of its
\* last record
UncompactedSuppressed(s) ==
    LastEmitted(s) # <<>> /\ clock - LastEmitted(s)[1] < DEDUP_SECONDS

\* C25: compaction is transparent to deduplication.  A run of cleanup_dedup
\* removes exactly the entries whose age is at least 2 * DEDUP_SECONDS and
\* leaves the others as they were; and after every step that changes the
\* table, the records or the clock, the dedup check answers for every
\* signature what it would answer on the table that was never compacted, so
\* the same records are emitted with compaction run at arbitrary points as
\* with none.
C25_CompactionTransparent ==
    [][/\ (last_seen' # last_seen \/ adv_log' # adv_log \/ clock' # clock) =>
             \A s \in Signatures :
                /\ Suppressed(last_seen', s, clock') = UncompactedSuppressed(s)'
                /\ s \in DOMAIN last_seen' => <<last_seen'[s]>> = LastEmitted(s)'
       /\ (decoded' = decoded /\ clock' = clock) =>
             /\ DOMAIN last_seen' =
                   {s \in DOMAIN last_seen : clock - last_seen[s] < 2 * DEDUP_SECONDS}
             /\ \A s \in DOMAIN last_seen' : last_seen'[s] = last_seen[s]]_vars

\* C25 witness: compaction has removed the entry of a signature emitted at
\* least 2 * DEDUP_SECONDS ago and the table holds the entry of another,
\* which was emitted a second time once its own entry was that old
C25_Witness ==
    \E s, t \in Signatures :
        /\ Len(adv_log[s]) = 1
        /\ s \notin DOMAIN last_seen
        /\ clock - adv_log[s][1].at >= 2 * DEDUP_SECONDS
        /\ t \in DOMAIN last_seen
        /\ Len(adv_log[t]) >= 2
        /\ adv_log[t][2].at - adv_log[t][1].at >= 2 * DEDUP_SECONDS
        /\ adv_log[t][2].skipped = 0

\* the lines written before the last call that carry the address hash and
\* the advertising type of the packet the last stream carries
PriorLines(f) ==
    {k \in 1..Len(out) : /\ out[k].macHash = hash_mac(MacBytes(f.mac))
                         /\ out[k].advType = ADV_TYPES[f.pdu_type + 1]}

\* C26: the dedup key is (macHash, advType) only.  No time passes between
\* the calls, so every line written is inside the window: a packet that
\* passes the checks is written exactly when no line with its macHash and
\* advType was written before, whatever the channel, payload, crcValid and
\* fingerprintId of that line; a second copy in the same stream is
\* suppressed by the first; and no two lines ever share macHash and advType.
C26_DedupKeyMacAndType ==
    [][scans' = scans + 1 =>
          LET f == frame'[1]
              passes == /\ Cardinality(f.flips) <= 1
                        /\ (f.len_byte % 64) \in 6..37
                        /\ f.cut = 0
              written == {k \in (Len(out) + 1)..Len(out') :
                             out'[k].index = f.offset}
          IN  /\ passes => (written # {} <=> PriorLines(f) = {})
              /\ (passes /\ f.repeat) =>
                    \E e \in LogEntries' :
                        /\ e.index > f.offset
                        /\ e.verdict = "dedup"
              /\ \A j, k \in 1..Len(out') :
                    (out'[j].macHash = out'[k].macHash
                        /\ out'[j].advType = out'[k].advType) => j = k]_vars

\* C26 witness: the packet just scanned was suppressed by a line that has
\* its macHash and advType and another channel, crcValid and fingerprintId
C26_Witness ==
    /\ scans = 2
    /\ frame[1].channel = 38
    /\ frame[1].bad_crc
    /\ frame[1].len_byte = 37
    /\ \E e \in Carried : e.verdict = "dedup" /\ e.payload_length = 37
    /\ Len(out) = 1
    /\ out[1].macHash = hash_mac(MacBytes(frame[1].mac))
    /\ out[1].advType = ADV_TYPES[frame[1].pdu_type + 1]
    /\ out[1].channel = 37
    /\ out[1].crcValid
    /\ out[1].fingerprintId # compute_fingerprint(EmptyDict, 0, 37)

AnomalyRecords == {k \in 1..Len(sw_out) : sw_out[k].protocol = "spectrum-anomaly"}

\* C28: in every reachable state of the sweep processor a bin carries the
\* already-emitted flag only if its streak counter is present and at least
\* MIN_STREAK, and every stored streak counter is at least 1; anomaly_count
\* starts at 0 and every call adds to it the number of spectrum-anomaly
\* records the call writes, so it equals the number written so far.
C28_StreakFlagCountInvariant ==
    /\ anomaly_count = 0 /\ DOMAIN streaks = {} /\ DOMAIN emitted = {}
    /\ [][/\ \A b \in DOMAIN emitted' :
                /\ emitted'[b] = TRUE
                /\ b \in DOMAIN streaks'
                /\ streaks'[b] >= MIN_STREAK
          /\ \A b \in DOMAIN streaks' : streaks'[b] >= 1
          /\ anomaly_count' =
                anomaly_count + IF lines' = lines + 1
                                THEN Cardinality(AnomalyRecords') ELSE 0]_vars

\* C28 witness: a bin with one record keeps its flag while its streak runs
\* past MIN_STREAK, on a call that wrote nothing
C28_Witness ==
    /\ anomaly_count = 1
    /\ AnomalyRecords = {}
    /\ \E b \in DOMAIN emitted :
          /\ emitted[b]
          /\ streaks[b] = MIN_STREAK + 1
    /\ lines = 6

====
